---- MODULE Spec2Model ----
(***************************************************************************)
(* Tile materialization and caching pipeline of map-stack's backend:       *)
(* the per-tile cache store (CityTileCache.ts / PoiTileCache.ts), the      *)
(* single-flight TileJobRegistry and the tile request handlers             *)
(* (GeoRoutes.ts getCityTile / getPoiTile).                                *)
(*                                                                         *)
(* Numbers are fixed-point: one unit is 1/100 (of a degree, for             *)
(* coordinates).                                                           *)
(* Timestamps (mtimeMs, Date.now()) are counted in half milliseconds.      *)
(***************************************************************************)
EXTENDS Integers, Sequences, FiniteSets, TLC

\* ------------------------------------------------------------------ bounds
MaxReqs == 2
MaxRestarts == 1

Reqs == 1..MaxReqs

Kinds == <<"city", "poi">>
KindSet == {Kinds[i] : i \in 1..Len(Kinds)}

\* tile addresses requested in the model: the two northern tiles of zoom 1
Tiles == {<<1, 0, 0>>, <<1, 1, 0>>}

\* the (kind, tile) pairs requested in the model
Targets == {<<"city", t>> : t \in Tiles} \cup {<<"poi", <<1, 0, 0>>>>}

\* ------------------------------------------------------- JavaScript values
\* A parsed JSON value is a tagged pair; `k' is what typeof/Array.isArray see.
JUndefined == [k |-> "undefined", v |-> 0]
JNull == [k |-> "null", v |-> 0]
JNum(n) == [k |-> "number", v |-> n]
JStr(s) == [k |-> "string", v |-> s]
JBool(b) == [k |-> "boolean", v |-> b]
JArr(s) == [k |-> "array", v |-> s]
JObj(r) == [k |-> "object", v |-> r]

\* typeof x
typeOf(x) == IF x.k \in {"null", "array", "object"} THEN "object" ELSE x.k
\* Array.isArray(x)
isArray(x) == x.k = "array"
\* !x
falsy(x) ==
  \/ x.k \in {"undefined", "null"}
  \/ x.k = "boolean" /\ x.v = FALSE
  \/ x.k = "number" /\ x.v = 0
\* x.name throws a TypeError on undefined and null
propThrows(x) == x.k \in {"undefined", "null"}
\* x.name where it does not throw
prop(x, name) ==
  IF x.k = "object" /\ name \in DOMAIN x.v THEN x.v[name] ELSE JUndefined
\* a === b on primitives
strictEq(a, b) == a.k = b.k /\ a.k \in {"number", "string", "boolean"} /\ a.v = b.v

\* ------------------------------------------------------ JavaScript numbers
\* A number is NaN, an infinity or a finite value counted in 1/Scale units.
Scale == 100
NaN == [num |-> "NaN", n |-> 0]
PosInfinity == [num |-> "Infinity", n |-> 1]
NegInfinity == [num |-> "Infinity", n |-> -1]
Fin(n) == [num |-> "finite", n |-> n]
\* the number of an integer literal
Int2Num(i) == Fin(i * Scale)

isNaN(v) == v.num = "NaN"
isFinite(v) == v.num = "finite"
isInteger(v) == isFinite(v) /\ v.n % Scale = 0
\* a < b
numLt(a, b) ==
  IF isNaN(a) \/ isNaN(b) THEN FALSE
  ELSE IF isFinite(a) /\ isFinite(b) THEN a.n < b.n
  ELSE IF isFinite(a) THEN b.n > 0
  ELSE IF isFinite(b) THEN a.n < 0
  ELSE a.n < b.n
\* a > b, a >= b, a <= b
numGt(a, b) == numLt(b, a)
numGe(a, b) == ~isNaN(a) /\ ~isNaN(b) /\ ~numLt(a, b)
numLe(a, b) == numGe(b, a)
\* Math.floor, Math.min, Math.max where no operand is NaN
mathFloor(v) == IF isFinite(v) THEN Fin((v.n \div Scale) * Scale) ELSE v
mathMin(a, b) == IF numLt(b, a) THEN b ELSE a
mathMax(a, b) == IF numGt(b, a) THEN b ELSE a
\* the integer a number holds, for a number that passed Number.isInteger
intOf(v) == v.n \div Scale

\* Number(s) on the strings requests carry in the model; Number trims white
\* space, reads the empty string as 0 and anything else unparsable as NaN.
NumberTable ==
  ("" :> Int2Num(0)) @@ (" " :> Int2Num(0)) @@ ("0" :> Int2Num(0)) @@
  ("1" :> Int2Num(1)) @@ ("2" :> Int2Num(2)) @@ ("3" :> Int2Num(3)) @@
  (" 3 " :> Int2Num(3)) @@ ("4" :> Int2Num(4)) @@ ("-1" :> Int2Num(-1)) @@
  ("2.9" :> Fin(290)) @@ ("7.5" :> Fin(750)) @@ ("0.5" :> Fin(50)) @@
  ("22" :> Int2Num(22)) @@ ("23" :> Int2Num(23)) @@ ("1e2" :> Int2Num(100)) @@
  ("5000" :> Int2Num(5000)) @@ ("5001" :> Int2Num(5001)) @@
  ("-90" :> Int2Num(-90)) @@ ("90" :> Int2Num(90)) @@ ("45" :> Int2Num(45)) @@
  ("12" :> Int2Num(12)) @@ ("13" :> Int2Num(13)) @@ ("14" :> Int2Num(14)) @@
  ("100" :> Int2Num(100)) @@ ("101" :> Int2Num(101)) @@
  ("abc" :> NaN) @@ ("1px" :> NaN) @@ ("Infinity" :> PosInfinity) @@
  ("-Infinity" :> NegInfinity)
RawStrings == DOMAIN NumberTable
Number(s) == NumberTable[s]

\* ------------------------------------------------------------ tile algebra
\* Math.pow(2, z) for an integer z >= 0
pow2(z) == 2 ^ z

\* (x / 2^z) * 360 - 180 counted in 1/2^z degree. The division by a power
\* of two, the product and the difference are exact in double arithmetic for
\* 0 <= x <= 2^z and z <= 22, so the double holds exactly this many 1/2^z.
lonTimesPow2(x, z) == 360 * x - 180 * pow2(z)

\* n / d in 1/Scale units, rounded down
scaled(n, d) == (n \div d) * Scale + ((n % d) * Scale) \div d

tileXToLon(x, z) == Fin(scaled(lonTimesPow2(x, z), pow2(z)))

\* atan(sinh(pi * (1 - 2k/16))) in degrees, rounded to 1/100 degree, k = 0..16
LatTable ==
  <<8505, 8268, 7917, 7402, 6651, 5578, 4098, 2194, 0,
    -2194, -4098, -5578, -6651, -7402, -7917, -8268, -8505>>

\* the zooms whose rows are sixteenths of the map
TableZoom == 4

\* atan(sinh(pi - 2*pi*y/2^z)) in degrees, for z <= TableZoom
tileYToLat(y, z) == Fin(LatTable[(y * pow2(TableZoom)) \div pow2(z) + 1])

\* a box whose latitudes are taken in the order of the rows
tileToBbox_RowOrder(z, x, y) ==
  <<tileXToLon(x, z), tileYToLat(y, z), tileXToLon(x + 1, z), tileYToLat(y + 1, z)>>

tileToBbox(z, x, y) ==
  <<tileXToLon(x, z), tileYToLat(y + 1, z), tileXToLon(x + 1, z), tileYToLat(y, z)>>

\* features.filter(...) with the box destructured into its four numbers
RECURSIVE filterSeq(_, _)
filterSeq(features, bbox) ==
  IF features = <<>> THEN <<>>
  ELSE LET f == Head(features)
           keep == /\ numGe(Fin(f.lon), bbox[1]) /\ numLe(Fin(f.lon), bbox[3])
                   /\ numGe(Fin(f.lat), bbox[2]) /\ numLe(Fin(f.lat), bbox[4])
       IN (IF keep THEN <<f>> ELSE <<>>) \o filterSeq(Tail(features), bbox)

\* what parseBbox returns for no box: null
NoBbox == <<>>

\* a filter whose box is open: points on the boundary are dropped
filterByBbox_OpenBox(features, bbox) ==
  IF bbox = NoBbox THEN features
  ELSE SelectSeq(features, LAMBDA f :
         /\ numGt(Fin(f.lon), bbox[1]) /\ numLt(Fin(f.lon), bbox[3])
         /\ numGt(Fin(f.lat), bbox[2]) /\ numLt(Fin(f.lat), bbox[4]))

filterByBbox(features, bbox) ==
  IF bbox = NoBbox THEN features ELSE filterSeq(features, bbox)

\* feature.geometry.coordinates throws a TypeError when geometry is missing
filterThrows(features) == \E i \in 1..Len(features) : ~features[i].geometry

\* ------------------------------------------------------------- cache store
CITY_TILE_CACHE_DIR == "tiles/cities"
POI_TILE_CACHE_DIR == "tiles/pois"

\* path.join(dir, String(z), String(x), `${y}.json`) for integers z, x, y
tilePathIn(dir, z, x, y) ==
  dir \o "/" \o ToString(z) \o "/" \o ToString(x) \o "/" \o ToString(y) \o ".json"

\* a path that leaves the column out
getCityTileCachePath_NoColumn(z, x, y) ==
  CITY_TILE_CACHE_DIR \o "/" \o ToString(z) \o "/" \o ToString(y) \o ".json"

getCityTileCachePath(z, x, y) == tilePathIn(CITY_TILE_CACHE_DIR, z, x, y)

\* a POI cache that was left pointing at the directory of the city tiles
getPoiTileCachePath_CityDir(z, x, y) == getCityTileCachePath(z, x, y)

getPoiTileCachePath(z, x, y) == tilePathIn(POI_TILE_CACHE_DIR, z, x, y)
getTileCachePath(kind, t) ==
  IF kind = "city" THEN getCityTileCachePath(t[1], t[2], t[3])
  ELSE getPoiTileCachePath(t[1], t[2], t[3])

CachePaths == {getTileCachePath(k, t) : k \in KindSet, t \in Tiles}

\* What a path holds: nothing (ENOENT), something readFile rejects (EACCES,
\* EISDIR), or text, which is either not JSON at all or the text of `doc'.
NoFile == [st |-> "ENOENT", doc |-> JNull]
Unreadable == [st |-> "EACCES", doc |-> JNull]
Garbage == [st |-> "garbage", doc |-> JNull]
TextOf(doc) == [st |-> "json", doc |-> doc]

featureToJson(f) ==
  JObj([type |-> JStr("Feature"),
        properties |-> JObj([id |-> JNum(f.id)]),
        geometry |-> JObj([type |-> JStr("Point"),
                           coordinates |-> JArr(<<JNum(f.lon), JNum(f.lat)>>)])])

featureFromJson(j) ==
  [id |-> j.v.properties.v.id.v,
   lon |-> j.v.geometry.v.coordinates.v[1].v,
   lat |-> j.v.geometry.v.coordinates.v[2].v,
   geometry |-> TRUE]

\* JSON.stringify(payload) followed by JSON.parse: the value tree of the text
stringify(p) ==
  JObj([type |-> JStr(p.type),
        tile |-> JObj([z |-> JNum(p.tile.z), x |-> JNum(p.tile.x), y |-> JNum(p.tile.y)]),
        bbox |-> JArr([i \in 1..Len(p.bbox) |-> JNum(p.bbox[i])]),
        count |-> JNum(p.count),
        dataset |-> JObj([relativePath |-> JStr(p.dataset.relativePath),
                          type |-> JStr(p.dataset.type),
                          lastModified |-> JNum(p.dataset.lastModified),
                          totalFeatures |-> JNum(p.dataset.totalFeatures)]),
        cache |-> JObj([key |-> JStr(p.cache.key),
                        generatedAt |-> JStr(p.cache.generatedAt),
                        hit |-> JBool(p.cache.hit)]),
        features |-> JArr([i \in 1..Len(p.features) |-> featureToJson(p.features[i])])])

\* the object JSON.parse returned, seen as a CityTileCachePayload
asPayload(j) ==
  [type |-> j.v.type.v,
   tile |-> [z |-> j.v.tile.v.z.v, x |-> j.v.tile.v.x.v, y |-> j.v.tile.v.y.v],
   bbox |-> [i \in 1..Len(j.v.bbox.v) |-> j.v.bbox.v[i].v],
   count |-> j.v.count.v,
   dataset |-> [relativePath |-> j.v.dataset.v.relativePath.v,
                type |-> j.v.dataset.v.type.v,
                lastModified |-> j.v.dataset.v.lastModified.v,
                totalFeatures |-> j.v.dataset.v.totalFeatures.v],
   cache |-> [key |-> j.v.cache.v.key.v,
              generatedAt |-> j.v.cache.v.generatedAt.v,
              hit |-> j.v.cache.v.hit.v],
   features |-> [i \in 1..Len(j.v.features.v) |-> featureFromJson(j.v.features.v[i])]]

isValidTilePayload(value) ==
  IF falsy(value) \/ typeOf(value) # "object" THEN FALSE
  ELSE /\ strictEq(prop(value, "type"), JStr("FeatureCollection"))
       /\ typeOf(prop(value, "count")) = "number"
       /\ isArray(prop(value, "features"))
       /\ typeOf(prop(value, "dataset")) = "object"
       /\ typeOf(prop(value, "cache")) = "object"
       /\ isArray(prop(value, "bbox"))
       /\ Len(prop(value, "bbox").v) = 4

\* The body of the try block of readCityTileFromCache: what it returns, or the
\* exception it throws.
NoPayload == [type |-> "null"]
Returned(p) == [thrown |-> "none", value |-> p]
Thrown(e) == [thrown |-> e, value |-> NoPayload]

\* a comparison that forgets the relative path
fingerprintDiffers_MtimeOnly(dataset, datasetInfo) ==
  ~strictEq(prop(dataset, "lastModified"), JNum(datasetInfo.lastModified))

\* a comparison that forgets the last-modified timestamp
fingerprintDiffers_PathOnly(dataset, datasetInfo) ==
  ~strictEq(prop(dataset, "relativePath"), JStr(datasetInfo.relativePath))

\* the comparison of the embedded dataset with the current datasetInfo
fingerprintDiffers(dataset, datasetInfo) ==
  \/ ~strictEq(prop(dataset, "relativePath"), JStr(datasetInfo.relativePath))
  \/ ~strictEq(prop(dataset, "lastModified"), JNum(datasetInfo.lastModified))

readTry(file, datasetInfo) ==
  IF file.st \in {"ENOENT", "EACCES"} THEN Thrown(file.st)
  ELSE IF file.st = "garbage" THEN Thrown("SyntaxError")
  ELSE LET parsed == file.doc IN
    IF ~isValidTilePayload(parsed) THEN Returned(NoPayload)
    ELSE IF propThrows(prop(parsed, "dataset")) THEN Thrown("TypeError")
    ELSE IF fingerprintDiffers(prop(parsed, "dataset"), datasetInfo)
         THEN Returned(NoPayload)
    ELSE IF propThrows(prop(parsed, "cache")) THEN Thrown("TypeError")
    ELSE Returned([asPayload(parsed) EXCEPT !.cache.hit = TRUE])

\* a catch block that turns ENOENT into null and rethrows the rest
readCatch_OnlyEnoent(r) == IF r.thrown = "ENOENT" THEN Returned(NoPayload) ELSE r

\* The catch block: every exception, ENOENT or not, becomes null.
readCatch(r) == Returned(NoPayload)

readCityTileFromCache(file, datasetInfo) ==
  LET r == readTry(file, datasetInfo) IN
  IF r.thrown = "none" THEN r ELSE readCatch(r)

readPoiTileFromCache(file, datasetInfo) == readCityTileFromCache(file, datasetInfo)

\* a copy that keeps the hit flag of the payload
toPersist_KeepHit(payload) == payload

toPersist(payload) == [payload EXCEPT !.cache.hit = FALSE]

\* a write that stores the features without the record around them
writeCityTileToCache_FeaturesOnly(payload) ==
  TextOf(JArr([i \in 1..Len(payload.features) |-> featureToJson(payload.features[i])]))

\* mkdir -p and writeFile succeeded: the path holds the text of toPersist
writeCityTileToCache(payload) == TextOf(stringify(toPersist(payload)))

writePoiTileToCache(payload) == writeCityTileToCache(payload)

\* ------------------------------------------------------------ dataset files
\* A feature whose geometry is missing is kept by loadGeoCollection (it does
\* not sanitize) and makes feature.geometry.coordinates throw in the filter.
F1 == [id |-> 1, lon |-> -9000, lat |-> 4500, geometry |-> TRUE]
F2 == [id |-> 2, lon |-> 0, lat |-> 4500, geometry |-> TRUE]
F3 == [id |-> 3, lon |-> 9000, lat |-> 4500, geometry |-> TRUE]
FBad == [id |-> 4, lon |-> 0, lat |-> 0, geometry |-> FALSE]

\* The dataset file a process may find at start: content and mtimeMs.
DatasetFiles ==
  << [exists |-> TRUE, features |-> <<F1, F2, F3>>, mtime |-> 2],
     [exists |-> TRUE, features |-> <<F1, FBad>>, mtime |-> 6],
     [exists |-> TRUE, features |-> <<F2>>, mtime |-> 4],
     [exists |-> TRUE, features |-> <<F2>>, mtime |-> 2],
     [exists |-> FALSE, features |-> <<>>, mtime |-> 0] >>

cityTileDataPath == "thailand-cities.geojson"
cityPointDataPath == "thailand-cities-point.geojson"
dataPath(kind) == IF kind = "city" THEN cityTileDataPath ELSE cityPointDataPath

loadGeoCollection(file) == IF file.exists THEN file.features ELSE <<>>

createDatasetInfo(filePath, file, features, now) ==
  [relativePath |-> filePath,
   type |-> "geojson",
   lastModified |-> IF file.exists THEN file.mtime ELSE now,
   featureCount |-> Len(features)]

\* ------------------------------------------------------ conditional GET
\* A relative path, cut into runs of letters and digits and the single
\* characters between them.
pathTokens ==
  ("thailand-cities.geojson" :> <<"thailand", "-", "cities", ".", "geojson">>) @@
  ("thailand-cities-point.geojson" :>
      <<"thailand", "-", "cities", "-", "point", ".", "geojson">>) @@
  ("thailand-cities-geojson" :> <<"thailand", "-", "cities", "-", "geojson">>) @@
  ("thailand/cities.geojson" :> <<"thailand", "/", "cities", ".", "geojson">>)

\* the characters the pattern [^a-zA-Z0-9_-] matches, among those of the paths
UnsafeChars == {".", "/", " "}

RECURSIVE joinTokens(_)
joinTokens(tokens) ==
  IF tokens = <<>> THEN "" ELSE Head(tokens) \o joinTokens(Tail(tokens))

\* relativePath.replace(/[^a-zA-Z0-9_-]/g, "-")
safePath(relativePath) ==
  joinTokens([i \in 1..Len(pathTokens[relativePath]) |->
               IF pathTokens[relativePath][i] \in UnsafeChars THEN "-"
               ELSE pathTokens[relativePath][i]])

\* Math.round of a timestamp counted in half milliseconds
roundMs(t) == (t + 1) \div 2

\* a tag that leaves the tile out
buildTileEtag_NoTile(prefix, tile, datasetInfo) ==
  "W/\"" \o prefix \o "-" \o safePath(datasetInfo.relativePath) \o "-"
    \o ToString(roundMs(datasetInfo.lastModified)) \o "-"
    \o ToString(datasetInfo.featureCount) \o "\""

buildTileEtag(prefix, tile, datasetInfo) ==
  "W/\"" \o prefix \o "-" \o safePath(datasetInfo.relativePath) \o "-"
    \o ToString(roundMs(datasetInfo.lastModified)) \o "-"
    \o ToString(datasetInfo.featureCount) \o "-"
    \o ToString(tile[1]) \o "-" \o ToString(tile[2]) \o "-" \o ToString(tile[3])
    \o "\""

\* The If-None-Match header values a request may carry.  A header value is
\* the sequence of its comma-separated parts, each part its text and whether
\* white space surrounds it; no header is the empty sequence.
InmChoices == {"absent", "empty", "star", "same", "other", "list", "blanks"}
Part(text, padded) == [text |-> text, padded |-> padded]
NoHeader == <<>>
ifNoneMatch(inm, eTag) ==
  IF inm = "absent" THEN NoHeader
  ELSE IF inm = "empty" THEN <<Part("", FALSE)>>
  ELSE IF inm = "star" THEN <<Part("*", FALSE)>>
  ELSE IF inm = "same" THEN <<Part(eTag, FALSE)>>
  ELSE IF inm = "other" THEN <<Part("W/\"other\"", FALSE)>>
  ELSE IF inm = "list" THEN <<Part("\"other\"", FALSE), Part(eTag, TRUE)>>
  ELSE <<Part("", TRUE), Part("", FALSE)>>

\* !ifNoneMatchHeader: the header is missing or the empty string
headerMissing(header) == header = NoHeader \/ header = <<Part("", FALSE)>>

\* split(","), trim and filter(Boolean)
matchValues(header) ==
  {header[i].text : i \in 1..Len(header)} \ {""}

\* res.set of applyTileCacheHeaders; a response starts with no header set
NoHeaders == [CacheControl |-> "", ETag |-> "", Vary |-> ""]
applyTileCacheHeaders_NoEtag(eTag) ==
  [CacheControl |-> "public, max-age=0, must-revalidate", ETag |-> "",
   Vary |-> "Accept-Encoding"]

applyTileCacheHeaders(eTag) ==
  [CacheControl |-> "public, max-age=0, must-revalidate", ETag |-> eTag,
   Vary |-> "Accept-Encoding"]

\* res.status(204).set("Cache-Control", "no-store")
NoStoreHeaders == [NoHeaders EXCEPT !.CacheControl = "no-store"]

\* ------------------------------------------------------------------- state
VARIABLES
  storage,      \* kind -> the dataset file in the data directory
  collection,   \* kind -> cityTileCollection / poiTileCollection
  datasetInfo,  \* kind -> cityTileDatasetInfo / poiTileDatasetInfo
  disk,         \* cache path -> what the path holds
  tileJobs,     \* kind -> the jobs Map of cityTileJobs / poiTileJobs
  jobs,         \* every factory invocation so far, in order of invocation
  reqs,         \* request -> its position in the handler and its outcome
  clock,        \* Date.now()
  epoch,        \* number of the running process
  versions,     \* kind -> the (lastModified, collection) pairs served so far
  probe         \* last direct call of the cache store (cache specification)

vars == <<storage, collection, datasetInfo, disk, tileJobs, jobs, reqs, clock,
          epoch, versions, probe>>

NoJob == 0
EmptyMap == [k \in {} |-> NoJob]
NoProbe == [op |-> "none"]

IdleReq ==
  [pc |-> "idle", kind |-> "city", tile |-> <<0, 0, 0>>, inm |-> "absent",
   job |-> NoJob, invoked |-> FALSE, liveAtRun |-> NoJob,
   cancelled |-> FALSE, writable |-> TRUE,
   observed |-> "none", value |-> NoPayload, outcome |-> "none",
   body |-> NoPayload, headers |-> NoHeaders, params |-> <<"0", "0", "0">>,
   epoch |-> 0]

\* a request of a process that no longer runs
GoneReq == [IdleReq EXCEPT !.pc = "gone"]

startInfo(kind, file, now) ==
  createDatasetInfo(dataPath(kind), file, loadGeoCollection(file), now)

Init ==
  /\ storage = [k \in KindSet |-> IF k = "city" THEN DatasetFiles[1] ELSE DatasetFiles[2]]
  /\ collection = [k \in KindSet |-> loadGeoCollection(storage[k])]
  /\ datasetInfo = [k \in KindSet |-> startInfo(k, storage[k], 10)]
  /\ disk = [p \in CachePaths |-> NoFile]
  /\ tileJobs = [k \in KindSet |-> EmptyMap]
  /\ jobs = <<>>
  /\ reqs = [r \in Reqs |-> IdleReq]
  /\ clock = 11
  /\ epoch = 0
  /\ versions = [k \in KindSet |->
                   {<<datasetInfo[k].lastModified, collection[k]>>}]
  /\ probe = NoProbe

\* ------------------------------------------------------- request lifecycle
\* req.params of a request for tile t
paramsOf(t) == <<ToString(t[1]), ToString(t[2]), ToString(t[3])>>

\* a validation without the upper bound of x and y
validateTile_NoExtent(z, x, y) ==
  IF ~(isInteger(z) /\ isInteger(x) /\ isInteger(y))
  THEN "Tile coordinates must be integers"
  ELSE IF numLt(z, Int2Num(0)) \/ numGt(z, Int2Num(22))
  THEN "Tile zoom must be between 0 and 22"
  ELSE IF numLt(x, Int2Num(0)) \/ numLt(y, Int2Num(0))
  THEN "Tile coordinates are out of range for the given zoom"
  ELSE "ok"

\* the three checks of the handler, in their order: the error of the 400
\* response, or "ok"
validateTile(z, x, y) ==
  IF ~(isInteger(z) /\ isInteger(x) /\ isInteger(y))
  THEN "Tile coordinates must be integers"
  ELSE IF numLt(z, Int2Num(0)) \/ numGt(z, Int2Num(22))
  THEN "Tile zoom must be between 0 and 22"
  ELSE IF \/ numLt(x, Int2Num(0)) \/ numGe(x, Int2Num(pow2(intOf(z))))
          \/ numLt(y, Int2Num(0)) \/ numGe(y, Int2Num(pow2(intOf(z))))
  THEN "Tile coordinates are out of range for the given zoom"
  ELSE "ok"

isResponseWritable(q) == q.writable
isRequestCancelled(q) == q.cancelled

\* a guard that lets every request through
tryRespondCancelled_Never(q) == "pass"

\* a guard that looks at the response only, not at the cancellation state
tryRespondCancelled_WritableOnly(q) ==
  IF ~isResponseWritable(q) THEN "dropped" ELSE "pass"

\* "pass" when the function returns false, else what happened to the response
tryRespondCancelled(q) ==
  IF ~isResponseWritable(q) THEN "dropped"
  ELSE IF isRequestCancelled(q) THEN "204"
  ELSE "pass"

\* a conditional GET that honours only the wildcard
tryRespondNotModified_StarOnly(q, eTag) ==
  IF ~isResponseWritable(q) THEN "dropped"
  ELSE IF headerMissing(ifNoneMatch(q.inm, eTag)) THEN "pass"
  ELSE IF "*" \in matchValues(ifNoneMatch(q.inm, eTag)) THEN "304"
  ELSE "pass"

tryRespondNotModified(q, eTag) ==
  IF ~isResponseWritable(q) THEN "dropped"
  ELSE IF headerMissing(ifNoneMatch(q.inm, eTag)) THEN "pass"
  ELSE IF \/ "*" \in matchValues(ifNoneMatch(q.inm, eTag))
          \/ eTag \in matchValues(ifNoneMatch(q.inm, eTag))
       THEN "304"
       ELSE "pass"

\* the headers a response of the handler carries, by what was sent
headersOf(outcome, eTag) ==
  IF outcome \in {"304", "200"} THEN applyTileCacheHeaders(eTag)
  ELSE IF outcome = "204" THEN NoStoreHeaders
  ELSE NoHeaders

\* ------------------------------------------------------ TileJobRegistry
\* a lookup that never finds the job in flight
existingJob_Never(map, key) == NoJob

\* this.jobs.get(key)
existingJob(map, key) == IF key \in DOMAIN map THEN map[key] ELSE NoJob

\* a run that forgets to register the job it started
setJob_Forget(map, key, j) == map

\* this.jobs.set(key, jobPromise)
setJob(map, key, j) == [k \in DOMAIN map \cup {key} |-> IF k = key THEN j ELSE map[k]]

\* this.jobs.delete(key)
deleteJob(map, key) == [k \in DOMAIN map \ {key} |-> map[k]]

\* a .then handler that returns the value without deleting the job
thenHandler_Keep(map, key) == map

\* the .then handler of run: the factory's promise was fulfilled
thenHandler(map, key) == deleteJob(map, key)

\* a .catch handler that rethrows without deleting the job
catchHandler_Keep(map, key) == map

\* the .catch handler of run: the factory's promise was rejected
catchHandler(map, key) == deleteJob(map, key)

\* factory invocations of this process that have not settled
liveJobs(kind, key) ==
  {j \in 1..Len(jobs) :
     /\ jobs[j].kind = kind /\ jobs[j].key = key /\ jobs[j].epoch = epoch
     /\ jobs[j].stage \in {"reading", "writing"}}

liveJob(kind, key) ==
  IF liveJobs(kind, key) = {} THEN NoJob ELSE CHOOSE j \in liveJobs(kind, key) : TRUE

\* Promise reactions run before the event loop takes the next event.
MicrotasksPending ==
  \/ \E j \in 1..Len(jobs) : jobs[j].stage = "settled"
  \/ \E r \in Reqs : reqs[r].pc = "waiting" /\ jobs[reqs[r].job].stage = "done"

NewJob(kind, key, r) ==
  [kind |-> kind, key |-> key, stage |-> "reading", outcome |-> "pending",
   payload |-> NoPayload, err |-> "none", found |-> "unread",
   reads |-> 0, filters |-> 0, writes |-> 0, starter |-> r, epoch |-> epoch]

\* a handler that looks at the cancellation before the conditional GET
guardsAtEntry_CancelledFirst(q, valid, eTag) ==
  IF ~valid THEN "400"
  ELSE IF tryRespondCancelled(q) # "pass" THEN tryRespondCancelled(q)
  ELSE tryRespondNotModified(q, eTag)

\* The checks of the handler before the job, in their order: what was done
\* with the response, or "pass" when the handler goes on to the registry.
guardsAtEntry(q, valid, eTag) ==
  IF ~valid THEN "400"
  ELSE IF tryRespondNotModified(q, eTag) # "pass" THEN tryRespondNotModified(q, eTag)
  ELSE tryRespondCancelled(q)

\* getCityTile / getPoiTile up to the return of the handler
Arrive(r, kind, params, inm, entry) ==
  /\ reqs[r].pc = "idle"
  /\ \A o \in Reqs : o < r => reqs[o].pc # "idle"
  /\ ~MicrotasksPending
  /\ LET z == Number(params[1])
         x == Number(params[2])
         y == Number(params[3])
         valid == validateTile(z, x, y) = "ok"
         a == IF valid THEN <<intOf(z), intOf(x), intOf(y)>> ELSE IdleReq.tile
         q == [IdleReq EXCEPT !.kind = kind, !.params = params, !.tile = a,
                              !.inm = inm,
                              !.cancelled = (entry # "live"),
                              !.writable = (entry # "unwritable"),
                              !.epoch = epoch]
         eTag == buildTileEtag(kind, a, datasetInfo[kind])
         existing == existingJob(tileJobs[kind], a)
         finish(o) == /\ reqs' = [reqs EXCEPT ![r] =
                           [q EXCEPT !.pc = "done", !.outcome = o,
                                     !.headers = headersOf(o, eTag)]]
                      /\ UNCHANGED <<tileJobs, jobs>>
     IN IF guardsAtEntry(q, valid, eTag) # "pass"
        THEN finish(guardsAtEntry(q, valid, eTag))
        ELSE IF existing # NoJob
             THEN /\ reqs' = [reqs EXCEPT ![r] =
                       [q EXCEPT !.pc = "waiting", !.job = existing,
                                 !.liveAtRun = liveJob(kind, a)]]
                  /\ UNCHANGED <<tileJobs, jobs>>
             ELSE /\ jobs' = Append(jobs, NewJob(kind, a, r))
                  /\ tileJobs' = [tileJobs EXCEPT ![kind] = setJob(@, a, Len(jobs) + 1)]
                  /\ reqs' = [reqs EXCEPT ![r] =
                       [q EXCEPT !.pc = "waiting", !.job = Len(jobs) + 1,
                                 !.invoked = TRUE, !.liveAtRun = liveJob(kind, a)]]
  /\ UNCHANGED <<storage, collection, datasetInfo, disk, clock, epoch, versions, probe>>

\* an abort that also rejects the job of the request and drops it
Abort_KillsJob(r, socketDestroyed) ==
  /\ reqs[r].pc = "waiting"
  /\ ~reqs[r].cancelled
  /\ ~MicrotasksPending
  /\ reqs' = [reqs EXCEPT ![r].cancelled = TRUE, ![r].writable = ~socketDestroyed]
  /\ jobs' = [jobs EXCEPT ![reqs[r].job].stage = "done",
                          ![reqs[r].job].outcome = "rejected",
                          ![reqs[r].job].err = "Aborted"]
  /\ tileJobs' = [tileJobs EXCEPT ![reqs[r].kind] =
                    [k \in DOMAIN @ \ {reqs[r].tile} |-> @[k]]]
  /\ UNCHANGED <<storage, collection, datasetInfo, disk, clock, epoch, versions, probe>>

\* the client aborts or the connection closes while the request waits
Abort(r, socketDestroyed) ==
  /\ reqs[r].pc = "waiting"
  /\ ~reqs[r].cancelled
  /\ ~MicrotasksPending
  /\ reqs' = [reqs EXCEPT ![r].cancelled = TRUE, ![r].writable = ~socketDestroyed]
  /\ UNCHANGED <<storage, collection, datasetInfo, disk, tileJobs, jobs, clock,
                 epoch, versions, probe>>

\* ------------------------------------------------------------ the tile job
cacheKey(t) == ToString(t[1]) \o "/" \o ToString(t[2]) \o "/" \o ToString(t[3])

\* the payload literal of the factory
buildPayload(t, info, features, now) ==
  [type |-> "FeatureCollection",
   tile |-> [z |-> t[1], x |-> t[2], y |-> t[3]],
   bbox |-> tileToBbox(t[1], t[2], t[3]),
   count |-> Len(features),
   dataset |-> [relativePath |-> info.relativePath,
                type |-> info.type,
                lastModified |-> info.lastModified,
                totalFeatures |-> info.featureCount],
   cache |-> [key |-> cacheKey(t), generatedAt |-> now, hit |-> FALSE],
   features |-> features]

readTileFromCache(kind, file, info) ==
  IF kind = "city" THEN readCityTileFromCache(file, info)
  ELSE readPoiTileFromCache(file, info)

writeTileToCache(kind, payload) ==
  IF kind = "city" THEN writeCityTileToCache(payload) ELSE writePoiTileToCache(payload)

\* readFile completed: the factory runs up to its next await or to its end
ReadDone(j) ==
  /\ j \in 1..Len(jobs)
  /\ jobs[j].stage = "reading"
  /\ ~MicrotasksPending
  /\ LET jb == jobs[j]
         file == disk[getTileCachePath(jb.kind, jb.key)]
         cached == readTileFromCache(jb.kind, file, datasetInfo[jb.kind])
         seen == [jb EXCEPT !.reads = @ + 1, !.found = file.st]
     IN IF cached.thrown # "none"
        THEN /\ jobs' = [jobs EXCEPT ![j] =
                  [seen EXCEPT !.stage = "settled", !.outcome = "rejected",
                               !.err = "CacheReadError"]]
             /\ UNCHANGED clock
        ELSE IF cached.value.type # "null"
        THEN /\ jobs' = [jobs EXCEPT ![j] =
                  [seen EXCEPT !.stage = "settled", !.outcome = "resolved",
                               !.payload = cached.value]]
             /\ UNCHANGED clock
        ELSE IF filterThrows(collection[jb.kind])
        THEN /\ jobs' = [jobs EXCEPT ![j] =
                  [seen EXCEPT !.stage = "settled", !.outcome = "rejected",
                               !.err = "ComputationFailure", !.filters = @ + 1]]
             /\ UNCHANGED clock
        ELSE /\ jobs' = [jobs EXCEPT ![j] =
                  [seen EXCEPT !.stage = "writing", !.filters = @ + 1,
                               !.payload = buildPayload(jb.key, datasetInfo[jb.kind],
                                   filterByBbox(collection[jb.kind],
                                                tileToBbox(jb.key[1], jb.key[2], jb.key[3])),
                                   clock)]]
             /\ UNCHANGED clock
  /\ UNCHANGED <<storage, collection, datasetInfo, disk, tileJobs, reqs, epoch,
                 versions, probe>>

\* mkdir and writeFile completed, or one of them rejected; a rejected
\* writeFile may leave a truncated file behind
WriteDone(j, result) ==
  /\ j \in 1..Len(jobs)
  /\ jobs[j].stage = "writing"
  /\ ~MicrotasksPending
  /\ LET jb == jobs[j]
         path == getTileCachePath(jb.kind, jb.key)
     IN IF result = "ok"
        THEN /\ disk' = [disk EXCEPT ![path] = writeTileToCache(jb.kind, jb.payload)]
             /\ jobs' = [jobs EXCEPT ![j].stage = "settled", ![j].outcome = "resolved",
                                     ![j].writes = @ + 1]
        ELSE /\ disk' = IF result = "truncated" THEN [disk EXCEPT ![path] = Garbage]
                        ELSE disk
             /\ jobs' = [jobs EXCEPT ![j].stage = "settled", ![j].outcome = "rejected",
                                     ![j].err = "CacheWriteError", ![j].writes = @ + 1]
  /\ UNCHANGED <<storage, collection, datasetInfo, tileJobs, reqs, clock, epoch,
                 versions, probe>>

\* the reaction run attached to the factory's promise
JobSettled(j) ==
  /\ j \in 1..Len(jobs)
  /\ jobs[j].stage = "settled"
  /\ tileJobs' = [tileJobs EXCEPT ![jobs[j].kind] =
       IF jobs[j].outcome = "resolved" THEN thenHandler(@, jobs[j].key)
       ELSE catchHandler(@, jobs[j].key)]
  /\ jobs' = [jobs EXCEPT ![j].stage = "done"]
  /\ UNCHANGED <<storage, collection, datasetInfo, disk, reqs, clock, epoch,
                 versions, probe>>

\* reactions that never look at the response before they write to it
settleRequest_Unguarded(q, jb) ==
  IF jb.outcome = "rejected"
  THEN [q EXCEPT !.pc = "done", !.observed = jb.err, !.outcome = "error"]
  ELSE IF isRequestCancelled(q)
  THEN [q EXCEPT !.pc = "done", !.observed = "resolved", !.value = jb.payload,
                 !.outcome = "204", !.headers = NoStoreHeaders]
  ELSE [q EXCEPT !.pc = "done", !.observed = "resolved", !.value = jb.payload,
                 !.outcome = "200", !.body = jb.payload,
                 !.headers = applyTileCacheHeaders(
                    buildTileEtag(q.kind, q.tile, datasetInfo[q.kind]))]

\* reactions that check for cancellation before looking at the outcome
settleRequest_CancelFirst(q, jb) ==
  IF tryRespondCancelled(q) # "pass"
  THEN [q EXCEPT !.pc = "done", !.observed = jb.outcome,
                 !.outcome = tryRespondCancelled(q),
                 !.headers = headersOf(tryRespondCancelled(q), "")]
  ELSE IF jb.outcome = "rejected"
  THEN [q EXCEPT !.pc = "done", !.observed = jb.err, !.outcome = "error"]
  ELSE [q EXCEPT !.pc = "done", !.observed = "resolved", !.value = jb.payload,
                 !.outcome = "200", !.body = jb.payload,
                 !.headers = applyTileCacheHeaders(
                    buildTileEtag(q.kind, q.tile, datasetInfo[q.kind]))]

\* the .then and .catch reactions of a handler, given the settled job
settleRequest(q, jb) ==
  IF jb.outcome = "rejected"
  THEN [q EXCEPT !.pc = "done", !.observed = jb.err, !.outcome = "error"]
  ELSE IF tryRespondCancelled(q) # "pass"
  THEN [q EXCEPT !.pc = "done", !.observed = "resolved", !.value = jb.payload,
                 !.outcome = tryRespondCancelled(q),
                 !.headers = headersOf(tryRespondCancelled(q), "")]
  ELSE [q EXCEPT !.pc = "done", !.observed = "resolved", !.value = jb.payload,
                 !.outcome = "200", !.body = jb.payload,
                 !.headers = applyTileCacheHeaders(
                    buildTileEtag(q.kind, q.tile, datasetInfo[q.kind]))]

\* the reactions the handlers attached to payloadPromise, in attachment order
Deliver(r) ==
  /\ reqs[r].pc = "waiting"
  /\ jobs[reqs[r].job].stage = "done"
  /\ \A o \in Reqs : o < r /\ reqs[o].pc = "waiting" => reqs[o].job # reqs[r].job
  /\ reqs' = [reqs EXCEPT ![r] = settleRequest(reqs[r], jobs[reqs[r].job])]
  /\ UNCHANGED <<storage, collection, datasetInfo, disk, tileJobs, jobs, clock,
                 epoch, versions, probe>>

\* The process stops and a new one starts: the module is loaded again, over
\* whatever the data directory and the tile cache hold by then.  The requests
\* and jobs of the old process are gone with it.
Restart(kind, i) ==
  /\ epoch < MaxRestarts
  /\ storage' = [storage EXCEPT ![kind] = DatasetFiles[i]]
  /\ collection' = [k \in KindSet |-> loadGeoCollection(storage'[k])]
  /\ datasetInfo' = [k \in KindSet |-> startInfo(k, storage'[k], clock)]
  /\ clock' = clock + 1
  /\ epoch' = epoch + 1
  /\ versions' = [k \in KindSet |->
       versions[k] \cup {<<datasetInfo'[k].lastModified, collection'[k]>>}]
  /\ tileJobs' = [k \in KindSet |-> EmptyMap]
  /\ jobs' = <<>>
  /\ reqs' = [r \in Reqs |-> IF reqs[r].pc = "idle" THEN reqs[r] ELSE GoneReq]
  /\ UNCHANGED <<disk, probe>>

Next ==
  \/ \E r \in Reqs, tg \in Targets :
        Arrive(r, tg[1], paramsOf(tg[2]), "absent", "live")
  \/ \E r \in Reqs, socketDestroyed \in BOOLEAN : Abort(r, socketDestroyed)
  \/ \E j \in 1..MaxReqs : ReadDone(j)
  \/ \E j \in 1..MaxReqs, result \in {"ok", "failed", "truncated"} : WriteDone(j, result)
  \/ \E j \in 1..MaxReqs : JobSettled(j)
  \/ \E r \in Reqs : Deliver(r)
  \/ \E i \in 1..Len(DatasetFiles) : Restart("city", i)

Spec == Init /\ [][Next]_vars

\* --------------------------------------------- the handler and its guards
\* Requests for one city tile and for addresses that fail validation, with
\* every If-None-Match choice, arriving live, already flagged cancelled or
\* with a response that is no longer writable.
HandlerParams == {<<"1", "0", "0">>, <<"1", "2", "0">>}
Entries == {"live", "cancelled", "unwritable"}

NextHandler ==
  \/ \E r \in Reqs, params \in HandlerParams, inm \in InmChoices, entry \in Entries :
        Arrive(r, "city", params, inm, entry)
  \/ \E r \in Reqs, socketDestroyed \in BOOLEAN : Abort(r, socketDestroyed)
  \/ \E j \in 1..MaxReqs : ReadDone(j)
  \/ \E j \in 1..MaxReqs, result \in {"ok", "failed"} : WriteDone(j, result)
  \/ \E j \in 1..MaxReqs : JobSettled(j)
  \/ \E r \in Reqs : Deliver(r)

SpecHandler == Init /\ [][NextHandler]_vars

\* ------------------------------------------------- jobs that run to their end
\* One process serving one tile of each kind.  Every I/O operation that was
\* started completes, and the reactions of a settled promise run.
LiveTargets == {<<"city", <<1, 0, 0>>>>, <<"poi", <<1, 0, 0>>>>}

NextLive ==
  \/ \E r \in Reqs, tg \in LiveTargets :
        Arrive(r, tg[1], paramsOf(tg[2]), "absent", "live")
  \/ \E r \in Reqs, socketDestroyed \in BOOLEAN : Abort(r, socketDestroyed)
  \/ \E j \in 1..MaxReqs : ReadDone(j)
  \/ \E j \in 1..MaxReqs, result \in {"ok", "failed", "truncated"} : WriteDone(j, result)
  \/ \E j \in 1..MaxReqs : JobSettled(j)
  \/ \E r \in Reqs : Deliver(r)

Fairness ==
  /\ \A j \in 1..MaxReqs : WF_vars(ReadDone(j))
  /\ \A j \in 1..MaxReqs :
        WF_vars(\E result \in {"ok", "failed", "truncated"} : WriteDone(j, result))
  /\ \A j \in 1..MaxReqs : WF_vars(JobSettled(j))
  /\ \A r \in Reqs : WF_vars(Deliver(r))

SpecLive == Init /\ [][NextLive]_vars /\ Fairness

\* ------------------------------------------- the cache store on its own
\* Direct calls of the cache store's exports, with payloads and dataset
\* infos drawn from bounded sets, over files that may have been damaged.
ProbeInfos ==
  {[relativePath |-> p, type |-> ty, lastModified |-> m, featureCount |-> n] :
     p \in {cityTileDataPath, cityPointDataPath}, ty \in {"geojson", "geojsonl"},
     m \in {2, 4}, n \in {1, 3}}

ProbePayloads(t) ==
  {[buildPayload(t, info, <<F1, F2>>, 11) EXCEPT !.cache.hit = h] :
     info \in {i \in ProbeInfos : i.type = "geojson" /\ i.featureCount = 3},
     h \in BOOLEAN}

SampleDoc == stringify(buildPayload(<<1, 0, 0>>, startInfo("city", DatasetFiles[1], 10),
                                    <<F1, F2>>, 11))

\* what a path may hold when something other than the cache store wrote it
DamagedFiles ==
  << Unreadable,
     Garbage,
     TextOf(JNull),
     TextOf(JNum(7)),
     TextOf(JArr(<<>>)),
     TextOf([SampleDoc EXCEPT !.v.type = JStr("Feature")]),
     TextOf([SampleDoc EXCEPT !.v.count = JStr("2")]),
     TextOf([SampleDoc EXCEPT !.v.features = JObj([length |-> JNum(0)])]),
     TextOf([SampleDoc EXCEPT !.v.dataset = JStr("thailand-cities.geojson")]),
     TextOf([SampleDoc EXCEPT !.v.dataset = JNull]),
     TextOf([SampleDoc EXCEPT !.v.cache = JNull]),
     TextOf([SampleDoc EXCEPT !.v.cache = JBool(TRUE)]),
     TextOf([SampleDoc EXCEPT !.v.bbox = JArr(<<JNum(0), JNum(0), JNum(1)>>)]),
     TextOf([SampleDoc EXCEPT !.v.bbox = JStr("0,0,1,1")]) >>

ProbeTile == <<1, 0, 0>>

NothingWritten == [k \in KindSet |-> NoPayload]

Probe(op, kind, info, payload, res, written) ==
  [op |-> op, kind |-> kind, info |-> info, payload |-> payload, res |-> res,
   written |-> written]

NoInfo == [relativePath |-> "", type |-> "", lastModified |-> 0, featureCount |-> 0]

\* kind -> the payload of the last write to the kind's path, if the path
\* still holds what that write left
lastWritten == IF probe.op = "none" THEN NothingWritten ELSE probe.written

CacheWrite(kind, p) ==
  /\ disk' = [disk EXCEPT ![getTileCachePath(kind, ProbeTile)] = writeTileToCache(kind, p)]
  /\ probe' = Probe("write", kind, NoInfo, p, Returned(NoPayload),
                    [lastWritten EXCEPT ![kind] = p])
  /\ UNCHANGED <<storage, collection, datasetInfo, tileJobs, jobs, reqs, clock,
                 epoch, versions>>

CacheDamage(kind, i) ==
  /\ disk' = [disk EXCEPT ![getTileCachePath(kind, ProbeTile)] = DamagedFiles[i]]
  /\ probe' = Probe("damage", kind, NoInfo, NoPayload, Returned(NoPayload),
                    [lastWritten EXCEPT ![kind] = NoPayload])
  /\ UNCHANGED <<storage, collection, datasetInfo, tileJobs, jobs, reqs, clock,
                 epoch, versions>>

CacheRead(kind, info) ==
  /\ probe' = Probe("read", kind, info, NoPayload,
                    readTileFromCache(kind, disk[getTileCachePath(kind, ProbeTile)], info),
                    lastWritten)
  /\ UNCHANGED <<storage, collection, datasetInfo, disk, tileJobs, jobs, reqs, clock,
                 epoch, versions>>

NextCache ==
  \/ \E kind \in KindSet, p \in ProbePayloads(ProbeTile) : CacheWrite(kind, p)
  \/ \E kind \in KindSet, i \in 1..Len(DamagedFiles) : CacheDamage(kind, i)
  \/ \E kind \in KindSet, info \in ProbeInfos : CacheRead(kind, info)

SpecCache == Init /\ [][NextCache]_vars

\* -------------------------------------------------------- query parameters
\* A query value is undefined, a string or an array of strings.  The string
\* of a bbox is the sequence of its comma-separated parts.
QUndefined == [q |-> "undefined"]
QStr(s) == [q |-> "string", s |-> s]
QArr(a) == [q |-> "array", a |-> a]

\* !bboxRaw: undefined or the empty string, which splits into one empty part
queryFalsy(value) ==
  \/ value.q = "undefined"
  \/ value.q = "string" /\ value.s = <<"">>

\* Number(Array.isArray(value) ? value[0] : value)
firstNumber(value) ==
  IF value.q = "undefined" THEN NaN
  ELSE IF value.q = "string" THEN Number(value.s)
  ELSE IF value.a = <<>> THEN NaN
  ELSE Number(value.a[1])

RECURSIVE joinParts(_)
\* bboxRaw.join(",") followed by split(",")
joinParts(a) == IF a = <<>> THEN <<>> ELSE Head(a) \o joinParts(Tail(a))

\* .filter((part) => !Number.isNaN(part))
RECURSIVE dropNaN(_)
dropNaN(nums) ==
  IF nums = <<>> THEN <<>>
  ELSE (IF isNaN(Head(nums)) THEN <<>> ELSE <<Head(nums)>>) \o dropNaN(Tail(nums))

parseBbox(bboxRaw) ==
  IF queryFalsy(bboxRaw) THEN NoBbox
  ELSE LET value == IF bboxRaw.q = "array" THEN joinParts(bboxRaw.a) ELSE bboxRaw.s
           parts == dropNaN([i \in 1..Len(value) |-> Number(value[i])])
       IN IF Len(parts) # 4 THEN NoBbox
          ELSE IF numGt(parts[1], parts[3]) \/ numGt(parts[2], parts[4]) THEN NoBbox
          ELSE parts

\* a limit that is clamped but not floored
parseLimit_NoFloor(value, defaultValue) ==
  LET num == firstNumber(value) IN
  IF isFinite(num)
  THEN mathMax(Int2Num(1), mathMin(Int2Num(5000), num))
  ELSE defaultValue

parseLimit(value, defaultValue) ==
  LET num == firstNumber(value) IN
  IF isFinite(num)
  THEN mathMax(Int2Num(1), mathMin(Int2Num(5000), mathFloor(num)))
  ELSE defaultValue

parseZoom(value) ==
  LET zoom == firstNumber(value) IN
  IF isFinite(zoom)
  THEN mathMin(Int2Num(22), mathMax(Int2Num(0), zoom))
  ELSE Int2Num(8)

\* a step function whose steps at 10 and 12 are exchanged
gridSizeForZoom_Exchanged(zoom) ==
  IF numGe(zoom, Int2Num(14)) THEN 2
  ELSE IF numGe(zoom, Int2Num(12)) THEN 10
  ELSE IF numGe(zoom, Int2Num(10)) THEN 5
  ELSE IF numGe(zoom, Int2Num(8)) THEN 25
  ELSE IF numGe(zoom, Int2Num(6)) THEN 50
  ELSE IF numGe(zoom, Int2Num(4)) THEN 100
  ELSE IF numGe(zoom, Int2Num(2)) THEN 200
  ELSE 400

\* the cell size, in 1/Scale degree
gridSizeForZoom(zoom) ==
  IF numGe(zoom, Int2Num(14)) THEN 2
  ELSE IF numGe(zoom, Int2Num(12)) THEN 5
  ELSE IF numGe(zoom, Int2Num(10)) THEN 10
  ELSE IF numGe(zoom, Int2Num(8)) THEN 25
  ELSE IF numGe(zoom, Int2Num(6)) THEN 50
  ELSE IF numGe(zoom, Int2Num(4)) THEN 100
  ELSE IF numGe(zoom, Int2Num(2)) THEN 200
  ELSE 400

\* array.slice(0, limit) for an integer limit >= 0
sliceTo(seq, limit) == SubSeq(seq, 1, IF limit < Len(seq) THEN limit ELSE Len(seq))

\* the answer to a query whose bbox is present and was not parsed
InvalidBbox ==
  [status |-> 400,
   error |-> "Invalid bbox parameter. Expected format: minLon,minLat,maxLon,maxLat"]

\* req.query.bbox && !bbox
bboxRejected(bboxRaw) == ~queryFalsy(bboxRaw) /\ parseBbox(bboxRaw) = NoBbox

getPois(poiCollection, query) ==
  IF bboxRejected(query.bbox) THEN InvalidBbox
  ELSE LET bbox == parseBbox(query.bbox)
           limit == parseLimit(query.limit, Int2Num(1000))
           filtered == filterByBbox(poiCollection, bbox)
           features == sliceTo(filtered, intOf(limit))
       IN [status |-> 200, count |-> Len(filtered), returned |-> Len(features),
           bbox |-> bbox, features |-> features]

\* ------------------------------------------------------ double arithmetic
\* The coordinates, their sums and the centroids are IEEE 754 doubles. A
\* double is a sign, a 53 bit significand held in two limbs (hi * 2^26 + lo,
\* hi in [2^26, 2^27)) and an exponent e: its value is sign * significand * 2^e.
\* Sums and quotients are rounded to nearest, ties to even.
\* JavaScript evaluates an expression once, before its value is used: F is
\* applied to the value of e.
evaluated(e, F(_)) == CHOOSE r \in {F(v) : v \in {e}} : TRUE

Limb == pow2(26)
Zero == [sign |-> 1, hi |-> 0, lo |-> 0, e |-> 0]
isZero(a) == a.hi = 0 /\ a.lo = 0

\* the number of bits of a natural below 2^31
bitLength(n) ==
  IF n >= pow2(30) THEN 31
  ELSE CHOOSE k \in 0..30 : n < pow2(k) /\ (k = 0 \/ n >= pow2(k - 1))

\* the two-limb natural (hi, lo) shifted right by d bits; sticky tells
\* whether a one was shifted out
RECURSIVE shiftRight(_, _, _, _)
shiftRight(hi, lo, sticky, d) ==
  IF d >= 26 THEN shiftRight(hi \div Limb, hi % Limb, sticky \/ lo # 0, d - 26)
  ELSE [hi |-> hi \div pow2(d),
        lo |-> (lo \div pow2(d)) + (hi % pow2(d)) * pow2(26 - d),
        sticky |-> sticky \/ (lo % pow2(d)) # 0]

\* the two-limb natural (hi, lo) shifted left by d bits, for a result that
\* fits the two limbs
RECURSIVE shiftLeft(_, _, _)
shiftLeft(hi, lo, d) ==
  IF d >= 26 THEN shiftLeft(hi * Limb + lo, 0, d - 26)
  ELSE [hi |-> hi * pow2(d) + (lo \div pow2(26 - d)),
        lo |-> (lo % pow2(26 - d)) * pow2(d)]

\* the double nearest to sign * (hi * 2^26 + lo + a fraction if sticky) * 2^e
roundToDouble(sign, hi, lo, sticky, e) ==
  LET len == IF hi > 0 THEN bitLength(hi) + 26 ELSE bitLength(lo) IN
  IF len = 0 THEN Zero
  ELSE IF len <= 53
  THEN LET m == shiftLeft(hi, lo, 53 - len)
       IN [sign |-> sign, hi |-> m.hi, lo |-> m.lo, e |-> e - (53 - len)]
  ELSE LET cut == len - 53
           y == shiftRight(hi, lo, sticky, cut - 1)
           half == y.lo % 2 = 1
           m == shiftRight(y.hi, y.lo, FALSE, 1)
           up == half /\ (y.sticky \/ m.lo % 2 = 1)
           lo1 == IF up THEN m.lo + 1 ELSE m.lo
           hi1 == m.hi + lo1 \div Limb
       IN IF hi1 = 2 * Limb
          THEN [sign |-> sign, hi |-> Limb, lo |-> 0, e |-> e + cut + 1]
          ELSE [sign |-> sign, hi |-> hi1, lo |-> lo1 % Limb, e |-> e + cut]

\* the double of an integer
toDouble(i) ==
  LET magnitude == IF i < 0 THEN -i ELSE i
  IN roundToDouble(IF i < 0 THEN -1 ELSE 1, magnitude \div Limb, magnitude % Limb,
                   FALSE, 0)

\* -1, 0, 1 as |a| is below, equal to or above |b|
compareMagnitude(a, b) ==
  IF isZero(a) THEN (IF isZero(b) THEN 0 ELSE -1)
  ELSE IF isZero(b) THEN 1
  ELSE IF a.e # b.e THEN (IF a.e < b.e THEN -1 ELSE 1)
  ELSE IF a.hi # b.hi THEN (IF a.hi < b.hi THEN -1 ELSE 1)
  ELSE IF a.lo # b.lo THEN (IF a.lo < b.lo THEN -1 ELSE 1)
  ELSE 0

\* a <= b
doubleLe(a, b) ==
  LET sa == IF isZero(a) THEN 0 ELSE a.sign
      sb == IF isZero(b) THEN 0 ELSE b.sign
  IN IF sa # sb THEN sa < sb
     ELSE IF sa = 0 THEN TRUE
     ELSE IF sa = 1 THEN compareMagnitude(a, b) <= 0
     ELSE compareMagnitude(a, b) >= 0

\* a + b for operands of the same sign (a cell holds no coordinates of
\* opposite signs)
doubleAdd(a, b) ==
  IF isZero(a) THEN b
  ELSE IF isZero(b) THEN a
  ELSE LET x == IF a.e >= b.e THEN a ELSE b
           y == IF a.e >= b.e THEN b ELSE a
           d == x.e - y.e
       IN IF d > 55 THEN x
          ELSE LET xs == shiftLeft(x.hi, x.lo, 3)
                   y3 == shiftLeft(y.hi, y.lo, 3)
                   ys == shiftRight(y3.hi, y3.lo, FALSE, d)
                   lo == xs.lo + ys.lo
               IN roundToDouble(x.sign, xs.hi + ys.hi + lo \div Limb, lo % Limb,
                                ys.sticky, x.e - 3)

\* One more octal digit of r / d: s holds the remainder r < d and the digits
\* found so far, both as two-limb naturals. The digit is the quotient of the
\* leading limbs, or one less when d times it exceeds the remainder.
divideStep(s, d) ==
  LET shifted == shiftLeft(s.rhi, s.rlo, 3)
      fits(k) == \/ shifted.hi > d.hi * k + ((d.lo * k) \div Limb)
                 \/ /\ shifted.hi = d.hi * k + ((d.lo * k) \div Limb)
                    /\ shifted.lo >= ((d.lo * k) % Limb)
      leading == shifted.hi \div d.hi
      digit == IF leading > 0 /\ ~fits(leading) THEN leading - 1 ELSE leading
      plo == d.lo * digit
      lend == IF shifted.lo < (plo % Limb) THEN 1 ELSE 0
      q == shiftLeft(s.qhi, s.qlo, 3)
  IN [rhi |-> shifted.hi - d.hi * digit - (plo \div Limb) - lend,
      rlo |-> shifted.lo - (plo % Limb) + lend * Limb,
      qhi |-> q.hi, qlo |-> q.lo + digit]

\* n further octal digits
RECURSIVE divideDigits(_, _, _)
divideDigits(s, d, n) ==
  IF n = 0 THEN s
  ELSE evaluated(divideStep(s, d), LAMBDA next : divideDigits(next, d, n - 1))

\* a / b for b other than zero: the leading bit and 18 octal digits of the
\* quotient of the significands, rounded
doubleDiv(a, b) ==
  IF isZero(a) THEN Zero
  ELSE LET below == compareMagnitude([a EXCEPT !.e = 0], [b EXCEPT !.e = 0]) < 0
           r == shiftLeft(a.hi, a.lo, IF below THEN 1 ELSE 0)
           borrow == IF r.lo < b.lo THEN 1 ELSE 0
           first == [rhi |-> r.hi - b.hi - borrow, rlo |-> r.lo - b.lo + borrow * Limb,
                     qhi |-> 0, qlo |-> 1]
       IN evaluated(divideDigits(first, b, 18), LAMBDA q :
            roundToDouble(a.sign * b.sign, q.qhi, q.qlo, q.rhi # 0 \/ q.rlo # 0,
                          a.e - b.e - 54 - (IF below THEN 1 ELSE 0)))

\* Math.floor of a double below 2^31 in magnitude, as an integer
doubleFloor(a) ==
  IF isZero(a) THEN 0
  ELSE LET cut == IF -a.e > 53 THEN 54 ELSE -a.e
           i == shiftRight(a.hi, a.lo, FALSE, cut)
           whole == i.hi * Limb + i.lo
       IN IF a.sign = 1 THEN whole
          ELSE IF i.sticky THEN -whole - 1 ELSE -whole

\* the double a decimal with two places reads as: n centidegrees
degrees(n) ==
  evaluated(<<toDouble(n), toDouble(Scale)>>, LAMBDA p : doubleDiv(p[1], p[2]))

\* ---------------------------------------------------------- grid clustering
\* String(feature.properties.category ?? "unknown")
categoryOf_Unknown(f) == "unknown"

categoryOf(f) == IF "category" \in DOMAIN f THEN f.category ELSE "unknown"

\* Math.floor(lon / cellSize) and Math.floor(lat / cellSize), in doubles
cellIndex(n, size) == evaluated(degrees(n), LAMBDA d : doubleFloor(doubleDiv(d, size)))

\* the key of the cell of a feature: `${x}:${y}`
cellKey(f, size) ==
  ToString(cellIndex(f.lon, size)) \o ":" \o ToString(cellIndex(f.lat, size))

\* the keys of the features, one after the other
RECURSIVE cellKeys(_, _)
cellKeys(features, size) ==
  IF features = <<>> THEN <<>>
  ELSE <<cellKey(Head(features), size)>> \o cellKeys(Tail(features), size)

\* a Map that takes every feature for the first of its cell
RECURSIVE clusterKeys_NoMerge(_, _)
clusterKeys_NoMerge(keyOf, seen) ==
  IF keyOf = <<>> THEN seen
  ELSE clusterKeys_NoMerge(Tail(keyOf), Append(seen, Head(keyOf)))

\* the keys of the clusters Map, in insertion order
RECURSIVE clusterKeys(_, _)
clusterKeys(keyOf, seen) ==
  IF keyOf = <<>> THEN seen
  ELSE clusterKeys(Tail(keyOf),
                   IF \E i \in 1..Len(seen) : seen[i] = Head(keyOf) THEN seen
                   ELSE Append(seen, Head(keyOf)))

\* cluster.sumLon += lon over the members, one after the other
RECURSIVE sumOf(_, _, _)
sumOf(seq, field, sum) ==
  IF seq = <<>> THEN sum
  ELSE evaluated(doubleAdd(sum, degrees(Head(seq)[field])),
                 LAMBDA next : sumOf(Tail(seq), field, next))

leastOf(S) == CHOOSE m \in S : \A o \in S : m <= o
greatestOf(S) == CHOOSE m \in S : \A o \in S : m >= o

\* the categories of the members in the order they were first seen
RECURSIVE firstSeen(_, _)
firstSeen(members, seen) ==
  IF members = <<>> THEN seen
  ELSE LET category == categoryOf(Head(members)) IN
       firstSeen(Tail(members),
                 IF \E i \in 1..Len(seen) : seen[i] = category THEN seen
                 ELSE Append(seen, category))

\* The property names that are array indices, with their values: an object
\* lists those first, in ascending order, and then the other names in the
\* order they were added.
ArrayIndices == ("7" :> 7) @@ ("10" :> 10)

RECURSIVE insertIndex(_, _)
insertIndex(sorted, k) ==
  IF sorted = <<>> THEN <<k>>
  ELSE IF ArrayIndices[Head(sorted)] <= ArrayIndices[k]
       THEN <<Head(sorted)>> \o insertIndex(Tail(sorted), k)
       ELSE <<k>> \o sorted

RECURSIVE sortIndices(_)
sortIndices(keys) ==
  IF keys = <<>> THEN <<>>
  ELSE insertIndex(sortIndices(Tail(keys)), Head(keys))

\* the names of an object whose properties were added in the order given
ownKeys(added) ==
  sortIndices(SelectSeq(added, LAMBDA k : k \in DOMAIN ArrayIndices))
    \o SelectSeq(added, LAMBDA k : k \notin DOMAIN ArrayIndices)

\* Object.entries(cluster.categories)
entriesOf(members) ==
  LET keys == ownKeys(firstSeen(members, <<>>)) IN
  [i \in 1..Len(keys) |->
     [name |-> keys[i],
      count |-> Len(SelectSeq(members, LAMBDA f : categoryOf(f) = keys[i]))]]

\* the features whose key is the given one, in their order
RECURSIVE membersOf(_, _, _)
membersOf(features, keyOf, key) ==
  IF features = <<>> THEN <<>>
  ELSE (IF Head(keyOf) = key THEN <<Head(features)>> ELSE <<>>)
         \o membersOf(Tail(features), Tail(keyOf), key)

\* the Cluster the loop has accumulated for a key
clusterOf(features, keyOf, key) ==
  evaluated(membersOf(features, keyOf, key), LAMBDA members :
    LET lons == {members[i].lon : i \in 1..Len(members)}
        lats == {members[i].lat : i \in 1..Len(members)}
    IN [id |-> key, count |-> Len(members),
        sumLon |-> sumOf(members, "lon", Zero), sumLat |-> sumOf(members, "lat", Zero),
        minLon |-> leastOf(lons), minLat |-> leastOf(lats),
        maxLon |-> greatestOf(lons), maxLat |-> greatestOf(lats),
        categories |-> entriesOf(members)])

\* Array.from(clusters.values())
clustersOf(features, cellSize) ==
  evaluated(degrees(cellSize), LAMBDA size :
    evaluated(cellKeys(features, size), LAMBDA keyOf :
      LET keys == clusterKeys(keyOf, <<>>) IN
      [i \in 1..Len(keys) |-> clusterOf(features, keyOf, keys[i])]))

\* .sort((a, b) => b.count - a.count): stable, larger counts first
RECURSIVE insertByCount(_, _)
insertByCount(sorted, c) ==
  IF sorted = <<>> THEN <<c>>
  ELSE IF Head(sorted).count >= c.count
       THEN <<Head(sorted)>> \o insertByCount(Tail(sorted), c)
       ELSE <<c>> \o sorted

\* a sort that leaves the order as it is
sortByCount_Unsorted(clusters) == clusters

RECURSIVE sortByCount(_)
sortByCount(clusters) ==
  IF clusters = <<>> THEN <<>>
  ELSE insertByCount(sortByCount(SubSeq(clusters, 1, Len(clusters) - 1)),
                     clusters[Len(clusters)])

\* Object.entries(cluster.categories).sort(...).slice(0, 3)
topCategories(categories) == sliceTo(sortByCount(categories), 3)

\* the feature of a cluster; the bbox and the centroid are doubles
clusterFeature(cluster, idx, zoom, cellSize) ==
  [id |-> "cluster_" \o ToString(idx), cluster_key |-> cluster.id,
   count |-> cluster.count,
   top_categories |-> topCategories(cluster.categories),
   bbox |-> <<degrees(cluster.minLon), degrees(cluster.minLat),
              degrees(cluster.maxLon), degrees(cluster.maxLat)>>,
   zoom |-> zoom, cellSizeDeg |-> cellSize,
   coordinates |-> <<doubleDiv(cluster.sumLon, toDouble(cluster.count)),
                     doubleDiv(cluster.sumLat, toDouble(cluster.count))>>]

getPoiClusters(poiCollection, query) ==
  IF bboxRejected(query.bbox) THEN InvalidBbox
  ELSE LET bbox == parseBbox(query.bbox)
           zoom == parseZoom(query.zoom)
           limit == parseLimit(query.limit, Int2Num(500))
           cellSize == gridSizeForZoom(zoom)
           features == filterByBbox(poiCollection, bbox)
           kept == sliceTo(sortByCount(clustersOf(features, cellSize)), intOf(limit))
           clusterFeatures == [i \in 1..Len(kept) |->
                                 clusterFeature(kept[i], i - 1, zoom, cellSize)]
       IN [status |-> 200, bbox |-> bbox, zoom |-> zoom,
           count |-> Len(clusterFeatures), originalCount |-> Len(features),
           cellSizeDeg |-> cellSize, features |-> clusterFeatures]

\* ------------------------------------- the pure functions on their own
\* One direct call of a query endpoint or of a pure function of the tile
\* handler, with arguments drawn from bounded sets.
BboxValues ==
  { QUndefined,
    QStr(<<"">>),
    QStr(<<"-90", "45", "0", "90">>),
    QStr(<<"0", "45", "0", "45">>),
    QStr(<<" 3 ", "0", "90", "90">>),
    QStr(<<"90", "0", "-90", "90">>),
    QStr(<<"-90", "90", "90", "0">>),
    QStr(<<"-90", "45", "0">>),
    QStr(<<"-90", "45", "0", "90", "1">>),
    QStr(<<"-90", "abc", "0", "90">>),
    QStr(<<"-90", "45", "abc", "0", "90">>),
    QStr(<<"-90", "", "0", "90">>),
    QStr(<<"-Infinity", "-90", "Infinity", "90">>),
    QStr(<<"abc">>),
    QArr(<< <<"-90", "45">>, <<"0", "90">> >>) }

LimitValues ==
  { QUndefined, QStr(""), QStr("abc"), QStr("Infinity"), QStr("-1"), QStr("0"),
    QStr("1"), QStr("2"), QStr("2.9"), QStr("5000"), QStr("5001"),
    QArr(<<"2", "1">>), QArr(<<>>) }

ZoomValues ==
  { QUndefined, QStr(""), QStr("abc"), QStr("-Infinity"), QStr("-1"), QStr("0"),
    QStr("4"), QStr("7.5"), QStr("22"), QStr("23"), QArr(<<"3", "22">>) }

\* points of interest that share cells at zoom 8
G1 == [id |-> 11, lon |-> 10050, lat |-> 1375, geometry |-> TRUE, category |-> "retail"]
G2 == [id |-> 12, lon |-> 10052, lat |-> 1376, geometry |-> TRUE, category |-> "retail"]
G3 == [id |-> 13, lon |-> 10160, lat |-> 1490, geometry |-> TRUE, category |-> "food"]

\* what poiCollection.features may hold
PoiCollections == {<<F1, F2, F3>>, <<F3, F1, F2, F1>>, <<G3, G1, G2, F2>>, <<>>}

AddressStrings == {"", "-1", "0", "0.5", "1", "2", "3", "4", "22", "23", "abc"}

EtagInfos ==
  {[relativePath |-> p, type |-> "geojson", lastModified |-> m, featureCount |-> n] :
     p \in DOMAIN pathTokens, m \in {2, 3, 4}, n \in {1, 3}}
EtagInputs == {<<prefix, t, info>> : prefix \in KindSet, t \in Tiles, info \in EtagInfos}

FilterBoxes == {parseBbox(v) : v \in BboxValues} \cup {tileToBbox(1, 0, 0)}

QueryPois(c, bboxRaw, limitRaw) ==
  /\ probe = NoProbe
  /\ probe' = [op |-> "getPois", collection |-> c,
               query |-> [bbox |-> bboxRaw, limit |-> limitRaw],
               limit |-> parseLimit(limitRaw, Int2Num(1000)),
               res |-> getPois(c, [bbox |-> bboxRaw, limit |-> limitRaw])]
  /\ UNCHANGED <<storage, collection, datasetInfo, disk, tileJobs, jobs, reqs, clock,
                 epoch, versions>>

QueryClusters(c, bboxRaw, zoomRaw, limitRaw) ==
  /\ probe = NoProbe
  /\ probe' = [op |-> "getPoiClusters", collection |-> c,
               query |-> [bbox |-> bboxRaw, zoom |-> zoomRaw, limit |-> limitRaw],
               limit |-> parseLimit(limitRaw, Int2Num(500)),
               res |-> getPoiClusters(c, [bbox |-> bboxRaw, zoom |-> zoomRaw,
                                          limit |-> limitRaw])]
  /\ UNCHANGED <<storage, collection, datasetInfo, disk, tileJobs, jobs, reqs, clock,
                 epoch, versions>>

\* the validation of the tile handlers on the path parameters of a request
ValidateAddress(params) ==
  /\ probe = NoProbe
  /\ probe' = [op |-> "validateTile", params |-> params,
               res |-> validateTile(Number(params[1]), Number(params[2]),
                                    Number(params[3])),
               status |-> IF validateTile(Number(params[1]), Number(params[2]),
                                          Number(params[3])) = "ok"
                          THEN 0 ELSE 400]
  /\ UNCHANGED <<storage, collection, datasetInfo, disk, tileJobs, jobs, reqs, clock,
                 epoch, versions>>

\* two calls of buildTileEtag, one after the other
BuildEtag(input, other) ==
  /\ probe = NoProbe
  /\ probe' = [op |-> "buildTileEtag", input |-> input,
               tag |-> buildTileEtag(input[1], input[2], input[3]),
               other |-> other,
               otherTag |-> buildTileEtag(other[1], other[2], other[3])]
  /\ UNCHANGED <<storage, collection, datasetInfo, disk, tileJobs, jobs, reqs, clock,
                 epoch, versions>>

FilterFeatures(features, bbox) ==
  /\ probe = NoProbe
  /\ probe' = [op |-> "filterByBbox", features |-> features, bbox |-> bbox,
               res |-> filterByBbox(features, bbox)]
  /\ UNCHANGED <<storage, collection, datasetInfo, disk, tileJobs, jobs, reqs, clock,
                 epoch, versions>>

NextPure ==
  \/ \E c \in PoiCollections, b \in BboxValues, l \in LimitValues : QueryPois(c, b, l)
  \/ \E zs \in AddressStrings, xs \in AddressStrings, ys \in AddressStrings :
        ValidateAddress(<<zs, xs, ys>>)
  \/ \E input \in EtagInputs, other \in EtagInputs : BuildEtag(input, other)
  \/ \E c \in PoiCollections, b \in FilterBoxes : FilterFeatures(c, b)
  \/ \E c \in PoiCollections, b \in BboxValues, z \in ZoomValues, l \in LimitValues :
        QueryClusters(c, b, z, l)

SpecPure == Init /\ [][NextPure]_vars

\* ----------------------------------------------- the clusters on their own
\* One call of getPoiClusters on collections whose points share cells.
\* points of interest of one address, and a point without a category
K1 == [id |-> 21, lon |-> 10060, lat |-> 1370, geometry |-> TRUE, category |-> "shop"]
K2 == [id |-> 22, lon |-> 10060, lat |-> 1370, geometry |-> TRUE, category |-> "7"]
K3 == [id |-> 23, lon |-> 10060, lat |-> 1370, geometry |-> TRUE, category |-> "cafe"]
K4 == [id |-> 24, lon |-> 10061, lat |-> 1371, geometry |-> TRUE, category |-> "cafe"]
K5 == [id |-> 25, lon |-> 10030, lat |-> 1330, geometry |-> TRUE]

ClusterCollections ==
  { <<G1, G2, G3>>,
    <<K1, K2, K3>>,
    <<K3, K1, K4, K2>>,
    <<G3, K1, G1, K5, G2, K4, K3>>,
    <<F1, F2, F3, F1>>,
    <<>> }
ClusterBoxes == {QUndefined, QStr(<<"100", "13", "101", "14">>), QStr(<<"abc">>)}
ClusterZooms == {QUndefined, QStr("0"), QStr("7.5"), QStr("12"), QStr("22")}
ClusterLimits == {QUndefined, QStr("1"), QStr("2"), QStr("3")}

NextCluster ==
  \E c \in ClusterCollections, b \in ClusterBoxes, z \in ClusterZooms,
     l \in ClusterLimits : QueryClusters(c, b, z, l)

SpecCluster == Init /\ [][NextCluster]_vars

\* ------------------------------------------------- tile and grid geometry
\* One direct call of tileToBbox, of tileXToLon or of gridSizeForZoom.
\* the addresses of the zooms whose latitudes are tabulated
TableTiles ==
  {<<z, x, y>> : z \in 0..TableZoom, x \in 0..(pow2(TableZoom) - 1),
                 y \in 0..(pow2(TableZoom) - 1)}
\* the deeper zooms, and the columns taken at each of them
DeepZooms == (TableZoom + 1)..22
columnsAt(z) == {0, 1, pow2(z - 1) - 1, pow2(z - 1), pow2(z) - 2, pow2(z) - 1}
\* zooms in [0, 22], by halves
ZoomNumbers == {Fin(h * (Scale \div 2)) : h \in 0..44}

\* tile (x, y) and its neighbour (x + 1, y)
TileBox(z, x, y) ==
  /\ probe = NoProbe
  /\ x < pow2(z) /\ y < pow2(z)
  /\ probe' = [op |-> "tileToBbox", z |-> z, x |-> x, y |-> y,
               res |-> tileToBbox(z, x, y),
               east |-> IF x + 1 < pow2(z) THEN tileToBbox(z, x + 1, y) ELSE <<>>]
  /\ UNCHANGED <<storage, collection, datasetInfo, disk, tileJobs, jobs, reqs, clock,
                 epoch, versions>>

\* the longitudes of column x and of column x + 1, in 1/2^z degree
TileColumn(z, x) ==
  /\ probe = NoProbe
  /\ probe' = [op |-> "tileXToLon", z |-> z, x |-> x,
               minLon |-> lonTimesPow2(x, z), maxLon |-> lonTimesPow2(x + 1, z),
               eastMinLon |-> lonTimesPow2(x + 1, z),
               eastMaxLon |-> lonTimesPow2(x + 2, z)]
  /\ UNCHANGED <<storage, collection, datasetInfo, disk, tileJobs, jobs, reqs, clock,
                 epoch, versions>>

\* two calls of gridSizeForZoom
GridSize(z1, z2) ==
  /\ probe = NoProbe
  /\ probe' = [op |-> "gridSizeForZoom", z1 |-> z1, z2 |-> z2,
               size1 |-> gridSizeForZoom(z1), size2 |-> gridSizeForZoom(z2)]
  /\ UNCHANGED <<storage, collection, datasetInfo, disk, tileJobs, jobs, reqs, clock,
                 epoch, versions>>

NextGeometry ==
  \/ \E t \in TableTiles : TileBox(t[1], t[2], t[3])
  \/ \E z \in DeepZooms : \E x \in columnsAt(z) : TileColumn(z, x)
  \/ \E z1 \in ZoomNumbers, z2 \in ZoomNumbers : GridSize(z1, z2)

SpecGeometry == Init /\ [][NextGeometry]_vars

\* -------------------------------------------------------- dataset loader
\* The text of a data file, by what JSON.parse makes of it: of the whole text
\* and of each of its lines. A line is blank, not JSON, or the text of a value.
Blank == [line |-> "blank"]
Junk == [line |-> "junk"]
LineOf(value) == [line |-> "json", doc |-> value]

\* What a candidate path holds: nothing, something that exists and cannot be
\* read, or text last modified at mtime.
Absent == [st |-> "ENOENT"]
Locked == [st |-> "EACCES"]
DataText(whole, lines, mtime) ==
  [st |-> "text", whole |-> whole, lines |-> lines, mtime |-> mtime]

CANDIDATE_FILES ==
  <<"thailand-cities.geojsonl", "thailand-cities.geojson", "thailand-cities-point.geojson">>

\* path.extname(absolutePath).toLowerCase() === '.geojsonl'
typeOfPath(path) == IF path = "thailand-cities.geojsonl" THEN "geojsonl" ELSE "geojson"

NoDataset == [dataset |-> "null"]
NoFeature == [feature |-> "null"]

\* Number(x) of a parsed JSON value
RECURSIVE numberOf(_)
numberOf(x) ==
  IF x.k = "number" THEN Fin(x.v)
  ELSE IF x.k = "string" THEN Number(x.v)
  ELSE IF x.k = "null" THEN Int2Num(0)
  ELSE IF x.k = "boolean" THEN Int2Num(IF x.v THEN 1 ELSE 0)
  ELSE IF x.k = "array" /\ x.v = <<>> THEN Int2Num(0)
  ELSE IF x.k = "array" /\ Len(x.v) = 1 /\ x.v[1].k \in {"number", "string"}
  THEN numberOf(x.v[1])
  ELSE NaN

sanitizeProperties(value) ==
  IF ~falsy(value) /\ typeOf(value) = "object" /\ ~isArray(value) THEN value
  ELSE JObj(<<>>)

toPointFeature(value) ==
  IF falsy(value) \/ typeOf(value) # "object" THEN NoFeature
  ELSE IF ~strictEq(prop(value, "type"), JStr("Feature")) THEN NoFeature
  ELSE LET geometry == prop(value, "geometry") IN
       IF falsy(geometry) \/ ~strictEq(prop(geometry, "type"), JStr("Point"))
       THEN NoFeature
       ELSE LET coords == prop(geometry, "coordinates") IN
            IF ~isArray(coords) \/ Len(coords.v) < 2 THEN NoFeature
            ELSE LET lon == numberOf(coords.v[1])
                     lat == numberOf(coords.v[2])
                 IN IF ~isFinite(lon) \/ ~isFinite(lat) THEN NoFeature
                    ELSE [properties |-> sanitizeProperties(prop(value, "properties")),
                          lon |-> lon.n, lat |-> lat.n, geometry |-> TRUE]

RECURSIVE sanitizeFeatureArray(_)
sanitizeFeatureArray(values) ==
  IF values = <<>> THEN <<>>
  ELSE LET feature == toPointFeature(Head(values)) IN
       (IF feature # NoFeature THEN <<feature>> ELSE <<>>)
         \o sanitizeFeatureArray(Tail(values))

\* the features of the lines: a blank line is skipped and a line that
\* JSON.parse rejects is ignored
RECURSIVE readLines(_)
readLines(lines) ==
  IF lines = <<>> THEN <<>>
  ELSE LET line == Head(lines)
           feature == IF line.line = "json" THEN toPointFeature(line.doc) ELSE NoFeature
       IN (IF feature # NoFeature THEN <<feature>> ELSE <<>>) \o readLines(Tail(lines))

readGeoJsonLines(file) ==
  IF file.st # "text" THEN Thrown(file.st) ELSE Returned(readLines(file.lines))

readGeoJsonCollection(file) ==
  IF file.st # "text" THEN Thrown(file.st)
  ELSE IF file.whole.line # "json" THEN Thrown("SyntaxError")
  ELSE LET parsed == file.whole.doc IN
       IF /\ strictEq(prop(parsed, "type"), JStr("FeatureCollection"))
          /\ isArray(prop(parsed, "features"))
       THEN Returned(sanitizeFeatureArray(prop(parsed, "features").v))
       ELSE IF isArray(parsed) THEN Returned(sanitizeFeatureArray(parsed.v))
       ELSE Thrown("Unsupported GeoJSON format")

\* the PoiDataset of the features read, or the exception of the read
datasetOf(path, type, file, features) ==
  IF features.thrown # "none" THEN features
  ELSE Returned([collection |-> [name |-> path, features |-> features.value],
                 info |-> [relativePath |-> path, type |-> type,
                           lastModified |-> file.mtime,
                           featureCount |-> Len(features.value)]])

loadDatasetFromFile(path, file) ==
  datasetOf(path, typeOfPath(path), file,
            IF typeOfPath(path) = "geojsonl" THEN readGeoJsonLines(file)
            ELSE readGeoJsonCollection(file))

\* What a call of getPoiDataset ends with: the exception it raises or the
\* value it returns, the cachedDataset it leaves, and the number of calls of
\* fs it made.
Outcome(thrown, value, cached, accesses) ==
  [thrown |-> thrown, value |-> value, cachedDataset |-> cached, accesses |-> accesses]

\* a catch block that lets the error of the load escape
catchLoad_Rethrow(error, rest) == Outcome(error, NoDataset, NoDataset, rest.accesses)

\* catch (error) { cachedDataset = null; } and on to the next candidate
catchLoad(error, rest) == rest

\* a loop that looks at the candidates from the last to the first
candidateAt_Reversed(i) == CANDIDATE_FILES[Len(CANDIDATE_FILES) + 1 - i]

\* for (const candidate of CANDIDATE_FILES)
candidateAt(i) == CANDIDATE_FILES[i]

\* the outcome of the later candidates after n calls of fs on this one
skipped(rest, n) == [rest EXCEPT !.accesses = @ + n]

\* try { cachedDataset = loadDatasetFromFile(absolutePath); return cachedDataset; }
tryLoad(loaded, rest) ==
  IF loaded.thrown = "none" THEN Outcome("none", loaded.value, loaded.value, 3)
  ELSE catchLoad(loaded.thrown, skipped(rest, 3))

\* the loop of getPoiDataset from the i-th candidate on: existsSync, and for
\* a path that exists statSync and readFileSync
RECURSIVE scanCandidates(_, _)
scanCandidates(files, i) ==
  IF i > Len(CANDIDATE_FILES) THEN Outcome("none", NoDataset, NoDataset, 0)
  ELSE IF files[candidateAt(i)].st = "ENOENT"
  THEN skipped(scanCandidates(files, i + 1), 1)
  ELSE tryLoad(loadDatasetFromFile(candidateAt(i), files[candidateAt(i)]),
               scanCandidates(files, i + 1))

getPoiDataset(cachedDataset, files) ==
  IF cachedDataset # NoDataset THEN Outcome("none", cachedDataset, cachedDataset, 0)
  ELSE scanCandidates(files, 1)

\* loadGeoCollection(cityPointDataPath, "thailand_cities") on such a file: the
\* parsed features as they are, or none
cityCollectionOf(file) ==
  IF file.st # "text" \/ file.whole.line # "json" THEN <<>>
  ELSE LET parsed == file.whole.doc IN
       IF /\ ~propThrows(parsed)
          /\ strictEq(prop(parsed, "type"), JStr("FeatureCollection"))
          /\ isArray(prop(parsed, "features"))
       THEN prop(parsed, "features").v
       ELSE <<>>

\* records of a data file: points of interest and records that are not point
\* features
PointG1 == featureToJson(G1)
PointG2 == featureToJson(G2)
PointNoProperties ==
  JObj([type |-> JStr("Feature"),
        geometry |-> JObj([type |-> JStr("Point"),
                           coordinates |-> JArr(<<JNum(10160), JNum(1490), JNum(12)>>)])])
withGeometry(geometry) ==
  JObj([type |-> JStr("Feature"), properties |-> JObj([id |-> JNum(9)]),
        geometry |-> geometry])
withCoordinates(coords) ==
  withGeometry(JObj([type |-> JStr("Point"), coordinates |-> coords]))
NotPoints ==
  << JNull, JNum(7), JStr("Feature"), JArr(<<>>),
     JObj([type |-> JStr("FeatureCollection"), features |-> JArr(<<>>)]),
     JObj([type |-> JStr("Feature"), properties |-> JObj([id |-> JNum(9)])]),
     withGeometry(JNull),
     withGeometry(JObj([type |-> JStr("LineString"),
                        coordinates |-> JArr(<<JArr(<<JNum(1), JNum(2)>>),
                                               JArr(<<JNum(3), JNum(4)>>)>>)])),
     withGeometry(JObj([type |-> JStr("Point")])),
     withCoordinates(JStr("100,13")),
     withCoordinates(JArr(<<JNum(10050)>>)),
     withCoordinates(JArr(<<JStr("abc"), JNum(1375)>>)),
     withCoordinates(JArr(<<JNum(10050), JObj(<<>>)>>)),
     withCoordinates(JArr(<<JNull, JNum(1370)>>)),
     withCoordinates(JArr(<<JNum(10050), JStr("")>>)) >>

collectionOf(values) ==
  JObj([type |-> JStr("FeatureCollection"), features |-> JArr(values)])

\* a document on one line and a document spread over several lines
OneLine(doc, mtime) == DataText(LineOf(doc), <<LineOf(doc)>>, mtime)
Indented(doc, mtime) == DataText(LineOf(doc), <<Junk, Junk, Junk>>, mtime)
\* lines that are not one document
Lines(lines, mtime) == DataText(Junk, lines, mtime)

LineFiles ==
  { Absent, Locked,
    Lines(<<LineOf(PointG1), Blank, Junk, LineOf(NotPoints[1]), LineOf(PointG2)>>, 5),
    Lines(<<LineOf(NotPoints[6]), LineOf(NotPoints[12]), LineOf(PointG2),
            LineOf(NotPoints[14]), LineOf(PointG1)>>, 6),
    Lines(<<Junk, Junk>>, 7),
    Indented(collectionOf(<<PointG1>>), 8) }
DocumentFiles ==
  { Absent, Locked,
    OneLine(collectionOf(<<PointG2, NotPoints[8], PointNoProperties, PointG1>>), 9),
    Indented(JArr(<<NotPoints[2], PointG1, NotPoints[15], NotPoints[10]>>), 10),
    Indented(JObj([type |-> JStr("Topology")]), 11),
    OneLine(JNull, 12),
    Lines(<<Junk>>, 13) }
PointFiles ==
  { Absent,
    Indented(collectionOf(<<PointG1>>), 14),
    OneLine(collectionOf(NotPoints), 15),
    Lines(<<LineOf(PointG1), LineOf(PointG2)>>, 16) }

filesFor(path) ==
  IF path = CANDIDATE_FILES[1] THEN LineFiles
  ELSE IF path = CANDIDATE_FILES[2] THEN DocumentFiles
  ELSE PointFiles

\* what the data directory may hold
DataDirectories ==
  { (CANDIDATE_FILES[1] :> a) @@ (CANDIDATE_FILES[2] :> b) @@ (CANDIDATE_FILES[3] :> c) :
      a \in LineFiles, b \in DocumentFiles, c \in PointFiles }

MaxCalls == 3
NotServed == [status |-> 0]

\* what the module of the routes holds once it is loaded
routesOf(files, cityCollection, poiDataset) ==
  [op |-> "dataset", files |-> files, filesAtCall |-> files,
   cachedAtCall |-> NoDataset,
   cachedDataset |-> poiDataset.cachedDataset,
   res |-> poiDataset, first |-> poiDataset.value,
   poiDataset |-> poiDataset.value,
   calls |-> 1, touched |-> FALSE,
   cityCollection |-> cityCollection,
   poiCollection |-> IF poiDataset.value # NoDataset
                     THEN poiDataset.value.collection.features
                     ELSE cityCollection,
   served |-> NotServed]

\* The module of the routes is loaded: cityCollection, poiDataset (the first
\* call of getPoiDataset) and poiCollection.
LoadRoutes(files) ==
  /\ probe = NoProbe
  /\ probe' = routesOf(files, cityCollectionOf(files[cityPointDataPath]),
                       getPoiDataset(NoDataset, files))
  /\ UNCHANGED <<storage, collection, datasetInfo, disk, tileJobs, jobs, reqs, clock,
                 epoch, versions>>

\* the process after a call that ended with out
afterCall(out) ==
  [probe EXCEPT !.filesAtCall = probe.files,
                !.cachedAtCall = probe.cachedDataset,
                !.cachedDataset = out.cachedDataset,
                !.res = out,
                !.first = IF @ = NoDataset THEN out.value ELSE @,
                !.calls = @ + 1]

\* a later call of getPoiDataset in the same process
GetPoiDataset ==
  /\ probe.op = "dataset"
  /\ probe.res.thrown = "none"
  /\ probe.calls < MaxCalls
  /\ probe' = afterCall(getPoiDataset(probe.cachedDataset, probe.files))
  /\ UNCHANGED <<storage, collection, datasetInfo, disk, tileJobs, jobs, reqs, clock,
                 epoch, versions>>

\* a candidate path is written, removed or replaced while the process runs
Touch(path, file) ==
  /\ probe.op = "dataset"
  /\ ~probe.touched
  /\ probe.files[path] # file
  /\ probe' = [probe EXCEPT !.files[path] = file, !.touched = TRUE]
  /\ UNCHANGED <<storage, collection, datasetInfo, disk, tileJobs, jobs, reqs, clock,
                 epoch, versions>>

\* GET /api/geo/pois on the collection the module holds
ServePois(bboxRaw) ==
  /\ probe.op = "dataset"
  /\ probe.res.thrown = "none"
  /\ probe.served = NotServed
  /\ probe' = [probe EXCEPT !.served =
                 getPois(probe.poiCollection, [bbox |-> bboxRaw, limit |-> QUndefined])]
  /\ UNCHANGED <<storage, collection, datasetInfo, disk, tileJobs, jobs, reqs, clock,
                 epoch, versions>>

NextDataset ==
  \/ \E files \in DataDirectories : LoadRoutes(files)
  \/ GetPoiDataset
  \/ \E i \in 1..Len(CANDIDATE_FILES) :
       \E file \in filesFor(CANDIDATE_FILES[i]) : Touch(CANDIDATE_FILES[i], file)
  \/ \E bboxRaw \in {QUndefined, QStr(<<"100", "13", "101", "14">>)} : ServePois(bboxRaw)

SpecDataset == Init /\ [][NextDataset]_vars

\* ------------------------------------------------------ the cities endpoint
\* toLowerCase on the strings the model uses: those with capitals, and the
\* others, which have none
toLowerCase(str) ==
  IF str = "ALL" THEN "all"
  ELSE IF str = "Seed" THEN "seed"
  ELSE IF str = "City" THEN "city"
  ELSE IF str = "Cluster" THEN "cluster"
  ELSE str

\* !value for the kind parameter: undefined or the empty string
kindMissing(value) == value.q = "undefined" \/ (value.q = "string" /\ value.s = "")

parseKindParam(value) ==
  IF kindMissing(value) THEN "city"
  ELSE LET raw == IF value.q = "array" THEN value.a[1] ELSE value.s
           normalized == toLowerCase(raw)
       IN IF normalized = "all" \/ normalized = "mixed" THEN "all"
          ELSE IF normalized \in {"cluster", "clusters", "cluster_seed", "seed"}
          THEN "cluster"
          ELSE "city"

\* String(feature.properties?.kind ?? "city").toLowerCase()
featureKind(f) == toLowerCase(IF "kind" \in DOMAIN f THEN f.kind ELSE "city")

\* a filter whose clusters are the features of kind cluster_seed only
selectedBy_SeedsOnly(kind, f) ==
  IF kind = "all" THEN TRUE
  ELSE IF kind = "cluster" THEN featureKind(f) = "cluster_seed"
  ELSE featureKind(f) = "city"

\* the callback of bboxFiltered.filter
selectedBy(kind, f) ==
  IF kind = "all" THEN TRUE
  ELSE IF kind = "cluster" THEN featureKind(f) # "city"
  ELSE featureKind(f) = "city"

\* the body of the answer, given the parsed parameters and the filtered features
citySummaryOf(kind, bbox, bboxFiltered) ==
  [status |-> 200,
   count |-> Len(SelectSeq(bboxFiltered, LAMBDA f : selectedBy(kind, f))),
   total_in_bbox |-> Len(bboxFiltered),
   kind |-> kind, bbox |-> bbox,
   features |-> SelectSeq(bboxFiltered, LAMBDA f : selectedBy(kind, f))]

getCitySummary(cityCollection, query) ==
  IF bboxRejected(query.bbox) THEN InvalidBbox
  ELSE citySummaryOf(parseKindParam(query.kind), parseBbox(query.bbox),
                     filterByBbox(cityCollection, parseBbox(query.bbox)))

\* cities and cluster seeds around Bangkok, and one far from it
S1 == [id |-> 31, lon |-> 10050, lat |-> 1375, geometry |-> TRUE, kind |-> "city"]
S2 == [id |-> 32, lon |-> 10052, lat |-> 1376, geometry |-> TRUE, kind |-> "cluster_seed"]
S3 == [id |-> 33, lon |-> 10060, lat |-> 1370, geometry |-> TRUE]
S4 == [id |-> 34, lon |-> 10061, lat |-> 1371, geometry |-> TRUE, kind |-> "City"]
S5 == [id |-> 35, lon |-> 10062, lat |-> 1372, geometry |-> TRUE, kind |-> "Cluster"]
S6 == [id |-> 36, lon |-> 9898, lat |-> 1879, geometry |-> TRUE, kind |-> "cluster_seed"]

CityCollections ==
  { <<S1, S2, S3, S4, S5, S6>>, <<S6, S2, S5>>, <<S3, S1>>, <<S2, S4, S6, S1>>, <<>> }

KindValues ==
  { QUndefined, QStr(""), QStr("city"), QStr("cluster"), QStr("clusters"),
    QStr("cluster_seed"), QStr("seed"), QStr("all"), QStr("mixed"), QStr("ALL"),
    QStr("Seed"), QStr("town"), QStr("cities"), QArr(<<"all", "city">>),
    QArr(<<"">>), QArr(<<"Cluster">>) }

\* one request, and the answers the same dataset and bbox get for each kind
QueryCities(c, bboxRaw, kindRaw) ==
  /\ probe = NoProbe
  /\ probe' = [op |-> "getCitySummary", collection |-> c,
               query |-> [bbox |-> bboxRaw, kind |-> kindRaw],
               res |-> getCitySummary(c, [bbox |-> bboxRaw, kind |-> kindRaw]),
               city |-> getCitySummary(c, [bbox |-> bboxRaw, kind |-> QStr("city")]),
               cluster |-> getCitySummary(c, [bbox |-> bboxRaw, kind |-> QStr("cluster")]),
               all |-> getCitySummary(c, [bbox |-> bboxRaw, kind |-> QStr("all")])]
  /\ UNCHANGED <<storage, collection, datasetInfo, disk, tileJobs, jobs, reqs, clock,
                 epoch, versions>>

NextCities ==
  \E c \in CityCollections, b \in ClusterBoxes, k \in KindValues : QueryCities(c, b, k)

SpecCities == Init /\ [][NextCities]_vars

\* ------------------------------------------------ cache paths on their own
\* Two calls of the path functions of the cache stores, for valid addresses
\* whose decimal digits could run together.
PathZooms == {0, 1, 4, 11}
PathColumns == {0, 1, 10, 11, 101}
PathTiles ==
  {<<z, x, y>> \in PathZooms \X PathColumns \X PathColumns :
     validateTile(Int2Num(z), Int2Num(x), Int2Num(y)) = "ok"}

CachePath(kind, t, otherKind, otherTile) ==
  /\ probe = NoProbe
  /\ probe' = [op |-> "getTileCachePath", kind |-> kind, tile |-> t,
               path |-> getTileCachePath(kind, t),
               otherKind |-> otherKind, otherTile |-> otherTile,
               otherPath |-> getTileCachePath(otherKind, otherTile)]
  /\ UNCHANGED <<storage, collection, datasetInfo, disk, tileJobs, jobs, reqs, clock,
                 epoch, versions>>

NextPath ==
  \E kind \in KindSet, t \in PathTiles, otherKind \in KindSet, otherTile \in PathTiles :
     CachePath(kind, t, otherKind, otherTile)

SpecPath == Init /\ [][NextPath]_vars

\* ------------------------------------------------- cancellation tracking
\* One request object: the calls of ensureRequestCancellationTracking and of
\* isRequestCancelled on it, the events it and its socket emit, and their
\* destruction.
MaxTrackingCalls == 3

NoState == 0
Events == {"aborted", "close", "socketClose"}
NoListeners == [e \in Events |-> 0]

\* a request on which nothing was called yet
NewRequest(hasSocket) ==
  [op |-> "tracking", hasSocket |-> hasSocket,
   state |-> NoState,           \* req[REQUEST_CANCEL_STATE]
   created |-> 0,               \* state objects built so far
   cancelled |-> FALSE,         \* the variable the listeners set
   listeners |-> NoListeners,   \* markCancelled listeners attached now
   attached |-> NoListeners,    \* calls of once(event, markCancelled) so far
   reqDestroyed |-> FALSE, socketDestroyed |-> FALSE,
   calls |-> 0, returned |-> NoState, last |-> "none", everTrue |-> FALSE]

\* req.once("aborted"), req.once("close") and, with a socket,
\* req.socket.once("close")
attach(counts, hasSocket) ==
  [e \in Events |-> IF e = "socketClose" /\ ~hasSocket THEN counts[e] ELSE counts[e] + 1]

\* the body of the function after the lookup of the existing state
trackRequest(q) ==
  [q EXCEPT !.cancelled = FALSE,
            !.listeners = attach(@, q.hasSocket),
            !.attached = attach(@, q.hasSocket),
            !.state = q.created + 1,
            !.created = @ + 1]

\* a function that does not look for the state it stored
ensureRequestCancellationTracking_Fresh(q) == trackRequest(q)

\* the request after the call; the state returned is its field `state'
ensureRequestCancellationTracking(q) ==
  IF q.state # NoState THEN q ELSE trackRequest(q)

\* state.isCancelled()
isCancelled(q) ==
  q.cancelled \/ q.reqDestroyed \/ (q.hasSocket /\ q.socketDestroyed)

OpenRequest(hasSocket) ==
  /\ probe = NoProbe
  /\ probe' = NewRequest(hasSocket)
  /\ UNCHANGED <<storage, collection, datasetInfo, disk, tileJobs, jobs, reqs, clock,
                 epoch, versions>>

\* a call of ensureRequestCancellationTracking(req), as at the head of a handler
EnsureTracking ==
  /\ probe.op = "tracking"
  /\ probe.calls < MaxTrackingCalls
  /\ probe' = [ensureRequestCancellationTracking(probe) EXCEPT
                 !.calls = @ + 1,
                 !.returned = ensureRequestCancellationTracking(probe).state]
  /\ UNCHANGED <<storage, collection, datasetInfo, disk, tileJobs, jobs, reqs, clock,
                 epoch, versions>>

\* what a call of isRequestCancelled(req) leaves, given the request after its
\* call of ensureRequestCancellationTracking
queried(q) ==
  [q EXCEPT !.calls = @ + 1, !.returned = q.state,
            !.last = IF isCancelled(q) THEN "true" ELSE "false",
            !.everTrue = @ \/ isCancelled(q)]

IsRequestCancelled ==
  /\ probe.op = "tracking"
  /\ probe.calls < MaxTrackingCalls
  /\ probe' = queried(ensureRequestCancellationTracking(probe))
  /\ UNCHANGED <<storage, collection, datasetInfo, disk, tileJobs, jobs, reqs, clock,
                 epoch, versions>>

\* The request or its socket emits an event: a listener attached with once
\* is removed and runs.
Emit(event) ==
  /\ probe.op = "tracking"
  /\ event = "socketClose" => probe.hasSocket
  /\ probe' = [probe EXCEPT !.cancelled = @ \/ probe.listeners[event] > 0,
                            !.listeners[event] = 0]
  /\ UNCHANGED <<storage, collection, datasetInfo, disk, tileJobs, jobs, reqs, clock,
                 epoch, versions>>

\* the request stream or the socket is destroyed
Destroy(socket) ==
  /\ probe.op = "tracking"
  /\ socket => probe.hasSocket
  /\ probe' = IF socket THEN [probe EXCEPT !.socketDestroyed = TRUE]
                       ELSE [probe EXCEPT !.reqDestroyed = TRUE]
  /\ UNCHANGED <<storage, collection, datasetInfo, disk, tileJobs, jobs, reqs, clock,
                 epoch, versions>>

NextTracking ==
  \/ \E hasSocket \in BOOLEAN : OpenRequest(hasSocket)
  \/ EnsureTracking
  \/ IsRequestCancelled
  \/ \E event \in Events : Emit(event)
  \/ \E socket \in BOOLEAN : Destroy(socket)

SpecTracking == Init /\ [][NextTracking]_vars

\* --------------------------------------- the collections under the handlers
\* The handlers of one process working on the collections the module holds:
\* the query endpoints on cityCollection (which poiCollection falls back to),
\* a tile job on the collection of its kind.  An array a handler holds in a
\* local is either the features array of the collection itself or an array
\* of its own.
theFeatures(features) == [items |-> features, array |-> "collection"]

\* a filter that removes the features outside the box from the array it got
filterByBboxIn_InPlace(arr, bbox) ==
  IF bbox = NoBbox THEN arr
  ELSE [arr EXCEPT !.items = filterByBbox(arr.items, bbox)]

\* filterByBbox on an array: without a box the array it was given, otherwise
\* the new array of features.filter
filterByBboxIn(arr, bbox) ==
  IF bbox = NoBbox THEN arr
  ELSE [items |-> filterByBbox(arr.items, bbox), array |-> "own"]

\* The features array of the collection once a handler is done with the array
\* it got from filterByBbox.  What the handlers do with that array (filter,
\* slice, for-of, JSON.stringify) builds new values and leaves it as it is.
collectionAfter(features, arr) ==
  IF arr.array = "collection" THEN arr.items ELSE features

\* feature.geometry.coordinates of a feature without geometry throws: in the
\* callback of the filter, and in the loop of getPoiClusters
endpointThrows(op, features, bbox) ==
  filterThrows(features) /\ (bbox # NoBbox \/ op = "getPoiClusters")

endpoint(op, features, query) ==
  IF op = "getCitySummary" THEN getCitySummary(features, query)
  ELSE IF op = "getPois" THEN getPois(features, query)
  ELSE getPoiClusters(features, query)

\* queries without a bbox, with one that selects, and with one that is refused
FrameQueries ==
  { [bbox |-> QUndefined, limit |-> QUndefined, kind |-> QUndefined, zoom |-> QStr("4")],
    [bbox |-> QUndefined, limit |-> QStr("1"), kind |-> QStr("cluster"), zoom |-> QStr("4")],
    [bbox |-> QStr(<<"-90", "45", "0", "90">>), limit |-> QUndefined,
     kind |-> QUndefined, zoom |-> QStr("4")],
    [bbox |-> QStr(<<"abc">>), limit |-> QStr("1"), kind |-> QUndefined,
     zoom |-> QStr("4")] }
Endpoints == {"getCitySummary", "getPois", "getPoiClusters"}

\* one request to a query endpoint, from its first line to its answer
CallEndpoint(op, query) ==
  /\ IF bboxRejected(query.bbox)
     THEN /\ probe' = [op |-> op, query |-> query, res |-> InvalidBbox,
                       held |-> "none"]
          /\ UNCHANGED collection
     ELSE IF endpointThrows(op, collection["poi"], parseBbox(query.bbox))
     THEN /\ probe' = [op |-> op, query |-> query, res |-> [status |-> 500],
                       held |-> "none"]
          /\ UNCHANGED collection
     ELSE /\ probe' = [op |-> op, query |-> query,
                       res |-> endpoint(op, collection["poi"], query),
                       held |-> filterByBboxIn(theFeatures(collection["poi"]),
                                               parseBbox(query.bbox)).array]
          /\ collection' = [collection EXCEPT !["poi"] =
               collectionAfter(@, filterByBboxIn(theFeatures(@), parseBbox(query.bbox)))]
  /\ UNCHANGED <<storage, datasetInfo, disk, tileJobs, jobs, reqs, clock, epoch,
                 versions>>

\* the factory of a tile job from its first line to its end, with a read and
\* a write that succeed
RunTileJob(kind, t) ==
  /\ IF readTileFromCache(kind, disk[getTileCachePath(kind, t)],
                          datasetInfo[kind]).value.type # "null"
     THEN /\ probe' = [op |-> "factory", kind |-> kind, tile |-> t, held |-> "none",
                       res |-> readTileFromCache(kind, disk[getTileCachePath(kind, t)],
                                                 datasetInfo[kind]).value]
          /\ UNCHANGED <<collection, disk>>
     ELSE IF filterThrows(collection[kind])
     THEN /\ probe' = [op |-> "factory", kind |-> kind, tile |-> t, held |-> "none",
                       res |-> NoPayload]
          /\ UNCHANGED <<collection, disk>>
     ELSE /\ probe' = [op |-> "factory", kind |-> kind, tile |-> t,
                       held |-> filterByBboxIn(theFeatures(collection[kind]),
                                               tileToBbox(t[1], t[2], t[3])).array,
                       res |-> buildPayload(t, datasetInfo[kind],
                                 filterByBboxIn(theFeatures(collection[kind]),
                                                tileToBbox(t[1], t[2], t[3])).items,
                                 clock)]
          /\ disk' = [disk EXCEPT ![getTileCachePath(kind, t)] =
               writeTileToCache(kind, probe'.res)]
          /\ collection' = [collection EXCEPT ![kind] =
               collectionAfter(@, filterByBboxIn(theFeatures(@),
                                                 tileToBbox(t[1], t[2], t[3])))]
  /\ UNCHANGED <<storage, datasetInfo, tileJobs, jobs, reqs, clock, epoch, versions>>

NextFrame ==
  \/ \E op \in Endpoints, query \in FrameQueries : CallEndpoint(op, query)
  \/ \E tg \in Targets : RunTileJob(tg[1], tg[2])
  \/ \E i \in 1..Len(DatasetFiles) : Restart("poi", i)

SpecFrame == Init /\ [][NextFrame]_vars

\* ---------------------------------------------- properties of the cache store
\* the PoiDatasetInfo a payload was built under
infoOf(p) ==
  [relativePath |-> p.dataset.relativePath, type |-> p.dataset.type,
   lastModified |-> p.dataset.lastModified, featureCount |-> p.dataset.totalFeatures]

probedFile == disk[getTileCachePath(probe.kind, ProbeTile)]
probedWrite == probe.written[probe.kind]
readAfterWrite == probe.op = "read" /\ probedWrite.type # "null"

\* C6: write(path, P) followed by read(path, fingerprint of P), with no other
\* write to path in between, returns a payload with cache.hit = TRUE whose
\* other fields are those of P; the persisted record carries hit = FALSE
\* whatever P.cache.hit was.
C6_CacheRoundTrip ==
  /\ probe.op = "write" =>
        /\ probedFile.st = "json"
        /\ strictEq(prop(prop(probedFile.doc, "cache"), "hit"), JBool(FALSE))
        /\ asPayload(probedFile.doc) = [probe.payload EXCEPT !.cache.hit = FALSE]
  /\ (readAfterWrite /\ probe.info = infoOf(probedWrite)) =>
        /\ probe.res.thrown = "none"
        /\ probe.res.value.type = "FeatureCollection"
        /\ probe.res.value.cache.hit = TRUE
        /\ probe.res.value = [probedWrite EXCEPT !.cache.hit = TRUE]

\* a payload written with hit = TRUE was read back under its own fingerprint
C6_Witness ==
  /\ readAfterWrite
  /\ probedWrite.cache.hit = TRUE
  /\ probe.info = infoOf(probedWrite)
  /\ probe.res.value.type = "FeatureCollection"

\* C7 as stated: read(path, F) returns absent whenever F differs, in any of
\* relativePath, type, lastModified or featureCount, from the fingerprint the
\* persisted entry was written under.
C7_AnyFieldInvalidates ==
  (readAfterWrite /\ probe.info # infoOf(probedWrite)) => probe.res.value.type = "null"

\* C7 amended: read(path, F) returns absent whenever F differs in
\* relativePath or in lastModified from the fingerprint the persisted entry
\* was written under; type and featureCount are not compared.
C7_FingerprintSensitivity ==
  /\ (readAfterWrite /\ \/ probe.info.relativePath # probedWrite.dataset.relativePath
                         \/ probe.info.lastModified # probedWrite.dataset.lastModified)
        => probe.res.value.type = "null"
  /\ (readAfterWrite /\ probe.info.relativePath = probedWrite.dataset.relativePath
                     /\ probe.info.lastModified = probedWrite.dataset.lastModified)
        => probe.res.value.type = "FeatureCollection"

\* an entry read under a fingerprint with another relativePath, found absent
C7_Witness ==
  /\ readAfterWrite
  /\ probe.info.relativePath # probedWrite.dataset.relativePath
  /\ probe.info.lastModified = probedWrite.dataset.lastModified
  /\ probe.res.value.type = "null"

\* the file does not exist, cannot be read, is not JSON or lacks the shape
unusable(file) ==
  \/ file.st \in {"ENOENT", "EACCES", "garbage"}
  \/ file.st = "json" /\ ~isValidTilePayload(file.doc)

\* C8: read(path, F) never raises; it returns null when the record does not
\* exist, cannot be read, is not decodable or lacks the required shape; and
\* a read leaves the cache store as it was.
C8_ReadNeverRaises ==
  [][probe'.op = "read" =>
       /\ probe'.res.thrown = "none"
       /\ unusable(disk[getTileCachePath(probe'.kind, ProbeTile)])
            => probe'.res.value.type = "null"
       /\ disk' = disk]_vars

\* a read of a record whose shape passes the check but whose dataset is null
C8_Witness ==
  /\ probe.op = "read"
  /\ probedFile.st = "json"
  /\ isValidTilePayload(probedFile.doc)
  /\ prop(probedFile.doc, "dataset").k = "null"
  /\ probe.res.thrown = "none"
  /\ probe.res.value.type = "null"

\* --------------------------------------------- properties of the registry
JobIds == 1..Len(jobs)
registered(j) ==
  /\ jobs[j].key \in DOMAIN tileJobs[jobs[j].kind]
  /\ tileJobs[jobs[j].kind][jobs[j].key] = j
\* the requests whose run found job j in flight or got its promise
callers(j) == {r \in Reqs : reqs[r].job = j \/ reqs[r].liveAtRun = j}
ran(r) == reqs[r].job # NoJob
minOf(S) == CHOOSE m \in S : \A o \in S : m <= o

\* C1: at most one job per key is held by a registry and at most one
\* unsettled factory invocation exists per (kind, key); a run issued while
\* a job for the key is in flight gets that job and does not invoke its
\* factory.
C1_AtMostOneJobPerKey ==
  /\ \A tg \in Targets : Cardinality(liveJobs(tg[1], tg[2])) <= 1
  /\ \A j \in JobIds : jobs[j].stage \in {"reading", "writing"} => registered(j)
  /\ \A k \in KindSet : \A key \in DOMAIN tileJobs[k] :
        /\ tileJobs[k][key] \in JobIds
        /\ jobs[tileJobs[k][key]].kind = k
        /\ jobs[tileJobs[k][key]].key = key
  /\ \A r \in Reqs : (ran(r) /\ reqs[r].liveAtRun # NoJob) =>
        /\ reqs[r].job = reqs[r].liveAtRun
        /\ ~reqs[r].invoked

\* a request joined a job that was in flight, and the job is still in flight
C1_Witness ==
  \E r \in Reqs :
    /\ reqs[r].pc = "waiting"
    /\ reqs[r].liveAtRun # NoJob
    /\ ~reqs[r].invoked
    /\ jobs[reqs[r].job].stage = "writing"

\* C2: the run calls issued for a key before the first one settles invoke
\* the factory once, the first requester's, and all of them observe the
\* same outcome: the same payload, or the same failure.
C2_SingleFlight ==
  \A j \in JobIds :
    /\ Cardinality({r \in callers(j) : reqs[r].invoked}) = 1
    /\ jobs[j].starter = minOf(callers(j))
    /\ reqs[jobs[j].starter].invoked
    /\ \A r1, r2 \in callers(j) :
          (reqs[r1].observed # "none" /\ reqs[r2].observed # "none") =>
             /\ reqs[r1].observed = reqs[r2].observed
             /\ reqs[r1].observed = "resolved" => reqs[r1].value = reqs[r2].value
             /\ reqs[r1].observed # "resolved" => reqs[r1].observed = jobs[j].err

\* two requests shared one job and both observed its payload
C2_Witness ==
  \E r1, r2 \in Reqs :
    /\ r1 # r2
    /\ ran(r1) /\ reqs[r1].job = reqs[r2].job
    /\ reqs[r1].observed = "resolved" /\ reqs[r2].observed = "resolved"
    /\ reqs[r1].value.type = "FeatureCollection"

\* C3: a job is out of the registry once it has settled, by success and by
\* failure alike and before any caller observes its outcome; a run issued
\* when no job for the key is in flight invokes its own factory.
C3_RemovedWhenSettled ==
  /\ \A j \in JobIds : jobs[j].stage = "done" => ~registered(j)
  /\ \A r \in Reqs : (ran(r) /\ reqs[r].observed # "none") => ~registered(reqs[r].job)
  /\ \A r \in Reqs : (ran(r) /\ reqs[r].liveAtRun = NoJob) =>
        /\ reqs[r].invoked
        /\ jobs[reqs[r].job].starter = r

\* a retry after a failure: the second request ran its own factory
C3_Witness ==
  \E r1, r2 \in Reqs :
    /\ r1 < r2
    /\ reqs[r1].kind = reqs[r2].kind /\ reqs[r1].tile = reqs[r2].tile
    /\ reqs[r1].outcome = "error"
    /\ reqs[r2].invoked /\ reqs[r2].job # reqs[r1].job

\* C4: a failed computation reaches every request joined on the job, each
\* of which forwards the error; the job is evicted; and the factory is
\* invoked only by the run of a request, never again on its own.
C4_FailurePropagation ==
  /\ \A j \in JobIds : (jobs[j].outcome = "rejected" /\ jobs[j].stage = "done") =>
        /\ ~registered(j)
        /\ \A r \in Reqs : reqs[r].job = j =>
              /\ ~MicrotasksPending => reqs[r].pc = "done"
              /\ reqs[r].pc = "done" =>
                    /\ reqs[r].outcome = "error"
                    /\ reqs[r].observed = jobs[j].err
  /\ Len(jobs) = Cardinality({r \in Reqs : reqs[r].invoked})
  /\ \A j \in JobIds : jobs[j].reads <= 1 /\ jobs[j].filters <= 1 /\ jobs[j].writes <= 1

\* a failed job with two joined requests, one of them cancelled meanwhile,
\* both of which forwarded the error
C4_Witness ==
  \E r1, r2 \in Reqs :
    /\ r1 # r2
    /\ ran(r1) /\ reqs[r1].job = reqs[r2].job
    /\ reqs[r1].outcome = "error" /\ reqs[r2].outcome = "error"
    /\ reqs[r2].cancelled

\* ------------------------------------------- properties of the tile request
\* the request was answered by its job's reactions and was never cancelled
answeredLive(r) == ran(r) /\ reqs[r].pc = "done" /\ ~reqs[r].cancelled

\* C5: for the requests that share a job on a tile whose cache entry is
\* absent, one cache read, one filter pass and one cache write are
\* performed, and every request that is not cancelled receives the same
\* freshly built payload (hit = FALSE), unless the filter itself failed.
C5_ColdTileStorm ==
  \A j \in JobIds : (jobs[j].found = "ENOENT" /\ jobs[j].stage = "done") =>
    /\ jobs[j].reads = 1 /\ jobs[j].filters = 1
    /\ jobs[j].err # "ComputationFailure" =>
          /\ jobs[j].writes = 1
          /\ \A r \in Reqs : (reqs[r].job = j /\ answeredLive(r)) =>
                /\ reqs[r].outcome = "200"
                /\ reqs[r].body = jobs[j].payload
                /\ reqs[r].body.cache.hit = FALSE

\* C9: a failure of a cache read or of a cache write never reaches a
\* request: unless the computation of the payload itself failed, the job
\* resolves and every joined request that is not cancelled receives a 200.
C9_CacheFailureInvisible ==
  /\ \A j \in JobIds : jobs[j].outcome = "rejected" => jobs[j].err = "ComputationFailure"
  /\ \A r \in Reqs :
        (answeredLive(r) /\ jobs[reqs[r].job].err # "ComputationFailure") =>
           reqs[r].outcome = "200"

\* the fingerprint a payload embeds when built under info
embedded(info) ==
  [relativePath |-> info.relativePath, type |-> info.type,
   lastModified |-> info.lastModified, totalFeatures |-> info.featureCount]

\* no two datasets served so far share a last-modified timestamp
mtimeTrusted(kind) ==
  \A v1, v2 \in versions[kind] : v1[1] = v2[1] => v1[2] = v2[2]

currentFeatures(kind, t) ==
  filterByBbox(collection[kind], tileToBbox(t[1], t[2], t[3]))

\* C10 as stated: every payload delivered in a 200 embeds the current
\* dataset fingerprint, and, if every dataset change changed the
\* last-modified timestamp, its features are the current dataset's features
\* inside the tile's bounding box.
C10_DeliveredIsCurrent ==
  \A r \in Reqs : reqs[r].outcome = "200" =>
    /\ reqs[r].body.dataset = embedded(datasetInfo[reqs[r].kind])
    /\ mtimeTrusted(reqs[r].kind) =>
          reqs[r].body.features = currentFeatures(reqs[r].kind, reqs[r].tile)

\* C10 amended: every payload delivered in a 200 embeds the relativePath
\* and the lastModified of the current dataset fingerprint; if every dataset
\* change changed the last-modified timestamp, it embeds the whole current
\* fingerprint and its features are the current dataset's features inside
\* the tile's bounding box.
C10_DeliveredMatchesCompared ==
  \A r \in Reqs : reqs[r].outcome = "200" =>
    /\ reqs[r].body.dataset.relativePath = datasetInfo[reqs[r].kind].relativePath
    /\ reqs[r].body.dataset.lastModified = datasetInfo[reqs[r].kind].lastModified
    /\ reqs[r].body.tile = [z |-> reqs[r].tile[1], x |-> reqs[r].tile[2], y |-> reqs[r].tile[3]]
    /\ mtimeTrusted(reqs[r].kind) =>
          /\ reqs[r].body.dataset = embedded(datasetInfo[reqs[r].kind])
          /\ reqs[r].body.features = currentFeatures(reqs[r].kind, reqs[r].tile)

\* after a restart under a dataset with a new timestamp, a request found the
\* entry of the previous dataset on disk and was answered with a fresh payload
C10_Witness ==
  \E r \in Reqs :
    /\ epoch > 0
    /\ reqs[r].outcome = "200"
    /\ jobs[reqs[r].job].found = "json"
    /\ reqs[r].body.cache.hit = FALSE
    /\ Len(reqs[r].body.features) > 0

\* ------------------------------------------ properties of the pure functions
\* C15 as stated: two calls with the same prefix, tile and dataset info give
\* the same tag, and two calls that differ in the prefix, in the tile, in the
\* relative path, in the last-modified timestamp or in the feature count
\* give different tags.
C15_EtagChangeSensitive ==
  probe.op = "buildTileEtag" =>
    (probe.tag = probe.otherTag) <=> (probe.input = probe.other)

\* C15 amended: two calls give the same tag exactly when they agree on the
\* prefix, on the tile, on the feature count, on the relative path once
\* every character outside [a-zA-Z0-9_-] is replaced by "-", and on the
\* last-modified timestamp rounded to the millisecond; timestamps a
\* millisecond or more apart give different tags.
C15_EtagSensitivity ==
  probe.op = "buildTileEtag" =>
    LET a == probe.input
        b == probe.other
        agree == /\ a[1] = b[1] /\ a[2] = b[2]
                 /\ a[3].featureCount = b[3].featureCount
                 /\ safePath(a[3].relativePath) = safePath(b[3].relativePath)
                 /\ roundMs(a[3].lastModified) = roundMs(b[3].lastModified)
    IN /\ (probe.tag = probe.otherTag) <=> agree
       /\ (a[3].lastModified - b[3].lastModified >= 2) => probe.tag # probe.otherTag
       /\ probe.tag = "W/\"" \o a[1] \o "-" \o safePath(a[3].relativePath) \o "-"
             \o ToString(roundMs(a[3].lastModified)) \o "-"
             \o ToString(a[3].featureCount) \o "-" \o ToString(a[2][1]) \o "-"
             \o ToString(a[2][2]) \o "-" \o ToString(a[2][3]) \o "\""

\* two dataset infos half a millisecond apart, and with paths that differ in
\* one character, got the same tag
C15_Witness ==
  /\ probe.op = "buildTileEtag"
  /\ probe.input[3].lastModified = 3 /\ probe.other[3].lastModified = 4
  /\ probe.input[3].relativePath = "thailand-cities.geojson"
  /\ probe.other[3].relativePath = "thailand-cities-geojson"
  /\ probe.tag = probe.otherTag

\* C16: a tile address is accepted exactly when z, x and y are integers with
\* 0 <= z <= 22, 0 <= x < 2^z and 0 <= y < 2^z; every other address gets a
\* 400 whose error is that of the first check that fails: integers, then the
\* zoom, then the range.
C16_TileAddressValidation ==
  probe.op = "validateTile" =>
    LET z == Number(probe.params[1])
        x == Number(probe.params[2])
        y == Number(probe.params[3])
        whole(v) == v.num = "finite" /\ v.n % Scale = 0
        integers == whole(z) /\ whole(x) /\ whole(y)
        zoomOk == \E zi \in 0..22 : z.n = zi * Scale
        inRange(v) == \E zi \in 0..22 :
                        z.n = zi * Scale /\ 0 <= v.n /\ v.n < (2 ^ zi) * Scale
    IN /\ (probe.res = "ok") <=> (integers /\ zoomOk /\ inRange(x) /\ inRange(y))
       /\ (probe.res = "ok") <=> (probe.status # 400)
       /\ ~integers => probe.res = "Tile coordinates must be integers"
       /\ (integers /\ ~zoomOk) => probe.res = "Tile zoom must be between 0 and 22"
       /\ (integers /\ zoomOk /\ ~(inRange(x) /\ inRange(y))) =>
             probe.res = "Tile coordinates are out of range for the given zoom"

\* x = 3 was accepted at zoom 2
C16_Witness ==
  /\ probe.op = "validateTile"
  /\ probe.params = <<"2", "3", "0">>
  /\ probe.res = "ok"

\* the parts of a bbox value, those of an array joined
bboxParts(value) == IF value.q = "array" THEN joinParts(value.a) ELSE value.s

\* C17 as stated: a query whose bbox is present gets a 400 when the value
\* has fewer or more than four comma-separated parts, when a part is not a
\* number, or when minLon > maxLon or minLat > maxLat; otherwise the four
\* numbers are the box.
C17_BboxValidation ==
  (probe.op \in {"getPois", "getPoiClusters"} /\ ~queryFalsy(probe.query.bbox)) =>
    LET parts == bboxParts(probe.query.bbox)
        nums == [i \in 1..Len(parts) |-> Number(parts[i])]
        wellFormed == /\ Len(parts) = 4
                      /\ \A i \in 1..4 : ~isNaN(nums[i])
                      /\ ~numGt(nums[1], nums[3]) /\ ~numGt(nums[2], nums[4])
    IN IF wellFormed THEN probe.res.status = 200 /\ probe.res.bbox = nums
       ELSE probe.res.status = 400

\* C18 as stated: the zoom of the cluster endpoint is an integer in [0,22]:
\* 8 when the parameter is absent or not a finite number, otherwise the
\* supplied number clamped to [0,22]; the cell size is the one of that zoom.
C18_ZoomIsInteger ==
  (probe.op = "getPoiClusters" /\ probe.res.status = 200) =>
    LET zoom == probe.res.zoom
        num == firstNumber(probe.query.zoom)
    IN /\ zoom.num = "finite" /\ zoom.n % Scale = 0
       /\ 0 <= zoom.n /\ zoom.n <= 22 * Scale
       /\ num.num # "finite" => zoom.n = 8 * Scale
       /\ (num.num = "finite" /\ num.n < 0) => zoom.n = 0
       /\ (num.num = "finite" /\ num.n > 22 * Scale) => zoom.n = 22 * Scale
       /\ (num.num = "finite" /\ 0 <= num.n /\ num.n <= 22 * Scale) => zoom = num
       /\ probe.res.cellSizeDeg = gridSizeForZoom(zoom)

\* C19: the limit is an integer in [1,5000]: the endpoint's default (1000
\* for POIs, 500 for clusters) when the parameter is absent or not a finite
\* number, otherwise the supplied number floored and clamped; no more
\* features than the limit are returned.
C19_LimitBounds ==
  (probe.op \in {"getPois", "getPoiClusters"}) =>
    LET limit == probe.limit
        num == firstNumber(probe.query.limit)
        default == IF probe.op = "getPois" THEN 1000 ELSE 500
    IN /\ limit.num = "finite" /\ limit.n % Scale = 0
       /\ Scale <= limit.n /\ limit.n <= 5000 * Scale
       /\ num.num # "finite" => limit.n = default * Scale
       /\ (num.num = "finite" /\ num.n < Scale) => limit.n = Scale
       /\ (num.num = "finite" /\ num.n >= 5000 * Scale) => limit.n = 5000 * Scale
       /\ (num.num = "finite" /\ Scale <= num.n /\ num.n < 5000 * Scale) =>
             limit.n <= num.n /\ num.n < limit.n + Scale
       /\ probe.res.status = 200 =>
             /\ Len(probe.res.features) * Scale <= limit.n
             /\ probe.op = "getPois" =>
                   /\ probe.res.returned = Len(probe.res.features)
                   /\ probe.res.returned <= probe.res.count
                   /\ probe.res.returned * Scale = limit.n
                         \/ probe.res.returned = probe.res.count
             /\ probe.op = "getPoiClusters" =>
                   probe.res.count = Len(probe.res.features)

\* limit=2.9 over three features: two were returned
C19_Witness ==
  /\ probe.op = "getPois"
  /\ probe.query.limit = QStr("2.9")
  /\ probe.res.status = 200
  /\ probe.res.count = 3
  /\ probe.res.returned = 2

\* the point of a feature lies in the closed box
insideBox(f, bbox) ==
  /\ ~numLt(Fin(f.lon), bbox[1]) /\ ~numGt(Fin(f.lon), bbox[3])
  /\ ~numLt(Fin(f.lat), bbox[2]) /\ ~numGt(Fin(f.lat), bbox[4])

\* C20: filterByBbox(F, B) is the subsequence of F, in the order of F, of
\* the features whose point lies in the closed box B; with no box it is F.
C20_FilterIsSubsequence ==
  probe.op = "filterByBbox" =>
    /\ probe.bbox = NoBbox => probe.res = probe.features
    /\ probe.bbox # NoBbox =>
          probe.res = SelectSeq(probe.features, LAMBDA f : insideBox(f, probe.bbox))

\* a feature on the boundary of the box was kept twice, one was dropped
C20_Witness ==
  /\ probe.op = "filterByBbox"
  /\ probe.features = <<F3, F1, F2, F1>>
  /\ probe.bbox = <<Int2Num(-90), Int2Num(45), Int2Num(0), Int2Num(90)>>
  /\ probe.res = <<F1, F2, F1>>

\* ------------------------------------------------ properties of the guards
\* the request was handled by a handler of this process
handled(r) == reqs[r].pc \in {"waiting", "done"}

\* every request that joined job j has been cancelled
abandoned(j) ==
  /\ j \in JobIds
  /\ \A r \in Reqs : (handled(r) /\ reqs[r].job = j) => reqs[r].cancelled

\* job j ran to its end: it read the cache, on a miss it filtered and, unless
\* the filter failed, wrote; what it wrote is the entry of its tile
ranToCompletion(j) ==
  /\ j \in JobIds
  /\ jobs[j].stage = "done"
  /\ jobs[j].reads = 1
  /\ (jobs[j].filters = 1 /\ jobs[j].err # "ComputationFailure") => jobs[j].writes = 1
  /\ (jobs[j].writes = 1 /\ jobs[j].outcome = "resolved") =>
        disk[getTileCachePath(jobs[j].kind, jobs[j].key)]
          = TextOf(stringify([jobs[j].payload EXCEPT !.cache.hit = FALSE]))

\* a job that read after job j wrote its entry was served that entry
servedFromCache(j) ==
  \A l \in JobIds :
    (/\ j < l /\ jobs[l].kind = jobs[j].kind /\ jobs[l].key = jobs[j].key
     /\ jobs[j].writes = 1 /\ jobs[j].outcome = "resolved"
     /\ jobs[l].reads = 1)
    => /\ jobs[l].filters = 0 /\ jobs[l].writes = 0
       /\ jobs[l].outcome = "resolved"
       /\ jobs[l].payload = [jobs[j].payload EXCEPT !.cache.hit = TRUE]

\* C11: a job whose requests are all cancelled still runs to its end and,
\* on a cache miss, writes the cache entry; a later request for the tile is
\* served from that entry.
C11_CancellationNeverAborts ==
  /\ \A j \in 1..MaxReqs : abandoned(j) ~> ranToCompletion(j)
  /\ [](\A j \in JobIds : servedFromCache(j))

\* the only request of a job was cancelled, the job wrote its entry, and a
\* later request for the tile got that entry as a cache hit
C11_Witness ==
  \E r1, r2 \in Reqs :
    /\ r1 < r2
    /\ ran(r1) /\ ran(r2) /\ reqs[r1].job < reqs[r2].job
    /\ reqs[r1].cancelled /\ reqs[r1].outcome = "204"
    /\ jobs[reqs[r1].job].writes = 1 /\ jobs[reqs[r1].job].outcome = "resolved"
    /\ jobs[reqs[r2].job].key = jobs[reqs[r1].job].key
    /\ reqs[r2].outcome = "200" /\ reqs[r2].body.cache.hit = TRUE

\* the request went through the job stage and was cancelled before its
\* reactions ran
cancelledBeforeDelivery(r) == ran(r) /\ reqs[r].pc = "done" /\ reqs[r].cancelled

\* C12 as stated: a request cancelled before its payload is delivered gets,
\* whether its job succeeded or failed, nothing at all (response no longer
\* writable) or a 204 with Cache-Control: no-store, and nothing else.
C12_CancelledGetsNoBody ==
  \A r \in Reqs : cancelledBeforeDelivery(r) =>
    /\ reqs[r].outcome \in {"204", "dropped"}
    /\ reqs[r].body = NoPayload

\* C12 amended: a request cancelled before its payload is delivered gets no
\* payload; when its job succeeded it gets nothing at all (response no longer
\* writable) or a 204 with Cache-Control: no-store and nothing else; when its
\* job failed the error is forwarded to the error handler.
C12_CancelledGetsNoPayload ==
  \A r \in Reqs : cancelledBeforeDelivery(r) =>
    /\ reqs[r].body = NoPayload
    /\ jobs[reqs[r].job].outcome = "resolved" =>
          /\ reqs[r].writable =>
                /\ reqs[r].outcome = "204"
                /\ reqs[r].headers = [CacheControl |-> "no-store", ETag |-> "", Vary |-> ""]
          /\ ~reqs[r].writable =>
                /\ reqs[r].outcome = "dropped"
                /\ reqs[r].headers = [CacheControl |-> "", ETag |-> "", Vary |-> ""]
    /\ jobs[reqs[r].job].outcome = "rejected" =>
          /\ reqs[r].outcome = "error"
          /\ reqs[r].headers = [CacheControl |-> "", ETag |-> "", Vary |-> ""]

\* two requests of one successful job, both cancelled meanwhile: one got the
\* 204, the other, whose socket was destroyed, got nothing
C12_Witness ==
  \E r1, r2 \in Reqs :
    /\ r1 # r2
    /\ cancelledBeforeDelivery(r1) /\ cancelledBeforeDelivery(r2)
    /\ reqs[r1].job = reqs[r2].job
    /\ jobs[reqs[r1].job].outcome = "resolved"
    /\ reqs[r1].outcome = "204" /\ reqs[r2].outcome = "dropped"

\* the address of the request passes the validation
validAddress(r) ==
  validateTile(Number(reqs[r].params[1]), Number(reqs[r].params[2]),
               Number(reqs[r].params[3])) = "ok"

\* the tag of the tile the request asks for
tagOf(r) == buildTileEtag(reqs[r].kind, reqs[r].tile, datasetInfo[reqs[r].kind])

\* a part of the If-None-Match header of the request is * or the tag
inmMatches(r) ==
  \E i \in 1..Len(ifNoneMatch(reqs[r].inm, tagOf(r))) :
    ifNoneMatch(reqs[r].inm, tagOf(r))[i].text \in {"*", tagOf(r)}

\* the headers of a full response
fullHeaders(r) ==
  [CacheControl |-> "public, max-age=0, must-revalidate", ETag |-> tagOf(r),
   Vary |-> "Accept-Encoding"]

\* C13: a request for a valid address whose response is writable and whose
\* If-None-Match parts contain * or the tag of the tile gets a 304 with no
\* body and the cache headers of a full response; no other request gets a 304.
C13_ConditionalGetMatch ==
  \A r \in Reqs : (handled(r) /\ validAddress(r)) =>
    /\ (inmMatches(r) /\ reqs[r].writable) =>
          /\ reqs[r].pc = "done"
          /\ reqs[r].outcome = "304"
          /\ reqs[r].body = NoPayload
          /\ reqs[r].headers = fullHeaders(r)
          /\ ~ran(r)
    /\ reqs[r].outcome = "304" => inmMatches(r)

\* a request flagged cancelled whose header lists another tag and then,
\* after a blank, the tag of the tile, got the 304
C13_Witness ==
  \E r \in Reqs :
    /\ reqs[r].pc = "done"
    /\ reqs[r].inm = "list"
    /\ reqs[r].cancelled
    /\ reqs[r].outcome = "304"
    /\ reqs[r].headers.ETag = tagOf(r)

\* C14: a request for a valid address whose If-None-Match is absent or
\* matches neither * nor the tag, that is not cancelled and whose job
\* succeeds, gets a 200 with the payload of the job as body and the headers
\* ETag, Cache-Control and Vary of a full response.
C14_FullResponse ==
  \A r \in Reqs : (handled(r) /\ validAddress(r) /\ ~inmMatches(r)) =>
    /\ ~reqs[r].cancelled => ran(r)
    /\ (ran(r) /\ reqs[r].pc = "done" /\ ~reqs[r].cancelled
           /\ jobs[reqs[r].job].outcome = "resolved") =>
          /\ reqs[r].outcome = "200"
          /\ reqs[r].body = jobs[reqs[r].job].payload
          /\ reqs[r].body.type = "FeatureCollection"
          /\ reqs[r].body.tile = [z |-> reqs[r].tile[1], x |-> reqs[r].tile[2],
                                  y |-> reqs[r].tile[3]]
          /\ reqs[r].headers = fullHeaders(r)
    /\ reqs[r].outcome = "200" => reqs[r].headers = fullHeaders(r)

\* a request with the tag of another entity got the full response
C14_Witness ==
  \E r \in Reqs :
    /\ reqs[r].inm = "other"
    /\ reqs[r].outcome = "200"
    /\ reqs[r].headers.ETag = tagOf(r)
    /\ reqs[r].body.cache.hit = FALSE

\* ----------------------------------------- properties of the tile geometry
\* C21: for every zoom z in [0,22] and x, y in [0,2^z), tileToBbox(z,x,y) has
\* minLon < maxLon and minLat < maxLat, minLon is x/2^z*360-180, and the
\* maxLon of tile (x,y) is exactly the minLon of tile (x+1,y).
C21_TileBoxes ==
  /\ probe.op = "tileToBbox" =>
        /\ numLt(probe.res[1], probe.res[3])
        /\ numLt(probe.res[2], probe.res[4])
        /\ probe.res[1].n * pow2(probe.z)
              = Scale * (360 * probe.x - 180 * pow2(probe.z))
        /\ probe.east # <<>> =>
              /\ probe.res[3] = probe.east[1]
              /\ probe.res[2] = probe.east[2] /\ probe.res[4] = probe.east[4]
  /\ probe.op = "tileXToLon" =>
        /\ probe.minLon < probe.maxLon
        /\ probe.maxLon = probe.eastMinLon
        /\ probe.eastMinLon < probe.eastMaxLon
        /\ probe.maxLon - probe.minLon = 360
        /\ -180 * pow2(probe.z) <= probe.minLon
        /\ probe.maxLon <= 180 * pow2(probe.z)

\* an inner tile of the deepest tabulated zoom, with a neighbour to the east
C21_Witness ==
  /\ probe.op = "tileToBbox"
  /\ probe.z = TableZoom /\ probe.x = 5 /\ probe.y = 11
  /\ probe.res = <<Fin(-6750), Fin(-6651), Fin(-4500), Fin(-5578)>>
  /\ probe.east[1] = Fin(-4500)

\* the cell size the thresholds give to a zoom
stepOf(zoom) ==
  LET steps == <<<<14, 2>>, <<12, 5>>, <<10, 10>>, <<8, 25>>, <<6, 50>>, <<4, 100>>,
                 <<2, 200>>>>
      reached == {i \in 1..Len(steps) : zoom.n >= steps[i][1] * Scale}
  IN IF reached = {} THEN 400
  ELSE steps[CHOOSE i \in reached : \A j \in reached : i <= j][2]

\* C22: gridSizeForZoom is the step function >=14 -> 0.02, >=12 -> 0.05,
\* >=10 -> 0.1, >=8 -> 0.25, >=6 -> 0.5, >=4 -> 1.0, >=2 -> 2.0, else 4.0,
\* and for zooms z1 <= z2 in [0,22] the cell size of z1 is at least that of z2.
C22_GridStepFunction ==
  probe.op = "gridSizeForZoom" =>
    /\ probe.size1 = stepOf(probe.z1)
    /\ probe.size2 = stepOf(probe.z2)
    /\ probe.z1.n <= probe.z2.n => probe.size1 >= probe.size2

\* a zoom between two thresholds and a zoom on a threshold
C22_Witness ==
  /\ probe.op = "gridSizeForZoom"
  /\ probe.z1 = Fin(1150) /\ probe.size1 = 10
  /\ probe.z2 = Fin(1200) /\ probe.size2 = 5

\* ----------------------------------------------- properties of the clusters
\* a call of getPoiClusters that was answered with clusters
clustered == probe.op = "getPoiClusters" /\ probe.res.status = 200

\* the features of the collection that the clustering was given
clusteredFeatures == filterByBbox(probe.collection, probe.res.bbox)

\* the populated cells of the call, in the order of their first feature
populatedCells == clustersOf(clusteredFeatures, probe.res.cellSizeDeg)

RECURSIVE totalCount(_)
totalCount(seq) == IF seq = <<>> THEN 0 ELSE Head(seq).count + totalCount(Tail(seq))

\* C23: the counts of the returned clusters sum to at most originalCount, the
\* number of features in the box, and to exactly originalCount when limit is
\* at least the number of populated cells; every feature lies in exactly one
\* cell, and the category histogram of a cell sums to its count.
C23_CountConservation ==
  clustered =>
    LET total == totalCount(probe.res.features) IN
    /\ probe.res.originalCount = Len(clusteredFeatures)
    /\ total <= probe.res.originalCount
    /\ intOf(probe.limit) >= Len(populatedCells) => total = probe.res.originalCount
    /\ totalCount(populatedCells) = probe.res.originalCount
    /\ \A i \in 1..Len(populatedCells) :
          totalCount(populatedCells[i].categories) = populatedCells[i].count

\* seven features in four cells of which the two largest are returned
C23_Witness ==
  /\ clustered
  /\ probe.collection = <<G3, K1, G1, K5, G2, K4, K3>>
  /\ probe.res.originalCount = 7
  /\ Len(populatedCells) = 4
  /\ intOf(probe.limit) = 2
  /\ totalCount(probe.res.features) = 5

\* the members of a returned cluster
clusterMembers(c) ==
  LET size == degrees(probe.res.cellSizeDeg) IN
  SelectSeq(clusteredFeatures, LAMBDA f : cellKey(f, size) = c.cluster_key)

\* C24: the centroid of every returned cluster lies within the reported bbox
\* of the cluster, and that bbox is the least and the greatest longitude and
\* latitude of the members, which all lie in the cell of the cluster.
C24_CentroidInsideBbox ==
  clustered =>
    \A i \in 1..Len(probe.res.features) :
      LET c == probe.res.features[i]
          members == clusterMembers(c)
          lons == {members[j].lon : j \in 1..Len(members)}
          lats == {members[j].lat : j \in 1..Len(members)}
      IN /\ doubleLe(c.bbox[1], c.coordinates[1])
         /\ doubleLe(c.coordinates[1], c.bbox[3])
         /\ doubleLe(c.bbox[2], c.coordinates[2])
         /\ doubleLe(c.coordinates[2], c.bbox[4])
         /\ c.bbox = <<degrees(leastOf(lons)), degrees(leastOf(lats)),
                       degrees(greatestOf(lons)), degrees(greatestOf(lats))>>
         /\ Len(members) = c.count

\* C25: the returned clusters are the `limit` largest cells: their counts do
\* not increase, there are min(limit, populated cells) of them, no cell left
\* out is larger than a returned one, and their ids are cluster_0, cluster_1,
\* ... in the order of the output.
C25_TopCellsByCount ==
  clustered =>
    LET out == probe.res.features
        limit == intOf(probe.limit)
        returned == {out[i].cluster_key : i \in 1..Len(out)}
    IN /\ \A i \in 1..(Len(out) - 1) : out[i].count >= out[i + 1].count
       /\ Len(out) = (IF limit < Len(populatedCells) THEN limit ELSE Len(populatedCells))
       /\ probe.res.count = Len(out)
       /\ \A i \in 1..Len(out) :
            /\ out[i].id = "cluster_" \o ToString(i - 1)
            /\ \E j \in 1..Len(populatedCells) :
                 /\ populatedCells[j].id = out[i].cluster_key
                 /\ populatedCells[j].count = out[i].count
       /\ Cardinality(returned) = Len(out)
       /\ \A j \in 1..Len(populatedCells) :
            populatedCells[j].id \notin returned =>
              \A i \in 1..Len(out) : populatedCells[j].count <= out[i].count

\* four cells with 1, 3, 2 and 1 features, seen in that order, cut to three
C25_Witness ==
  /\ clustered
  /\ probe.collection = <<G3, K1, G1, K5, G2, K4, K3>>
  /\ Len(populatedCells) = 4
  /\ intOf(probe.limit) = 3
  /\ [i \in 1..Len(probe.res.features) |->
        <<probe.res.features[i].id, probe.res.features[i].count>>]
       = <<<<"cluster_0", 3>>, <<"cluster_1", 2>>, <<"cluster_2", 1>>>>

\* the histogram of the members in the order the categories were first seen
histogramOf(members) ==
  LET names == firstSeen(members, <<>>) IN
  [i \in 1..Len(names) |->
     [name |-> names[i],
      count |-> Len(SelectSeq(members, LAMBDA f : categoryOf(f) = names[i]))]]

\* C26: top_categories holds at most 3 categories, the most frequent first and
\* of equally frequent ones the one first seen among the features of the
\* cluster first; a feature without a category counts as "unknown"; no
\* category left out is more frequent than a listed one.
C26_TopCategories ==
  clustered =>
    \A i \in 1..Len(probe.res.features) :
      LET c == probe.res.features[i]
          top == c.top_categories
          histogram == histogramOf(clusterMembers(c))
          seenAt(name) == CHOOSE k \in 1..Len(histogram) : histogram[k].name = name
      IN /\ Len(top) <= 3
         /\ Len(top) = (IF Len(histogram) < 3 THEN Len(histogram) ELSE 3)
         /\ \A k \in 1..Len(top) :
              \E h \in 1..Len(histogram) : histogram[h] = top[k]
         /\ \A k \in 1..(Len(top) - 1) :
              \/ top[k].count > top[k + 1].count
              \/ /\ top[k].count = top[k + 1].count
                 /\ seenAt(top[k].name) < seenAt(top[k + 1].name)
         /\ \A h \in 1..Len(histogram) :
              (\A k \in 1..Len(top) : top[k].name # histogram[h].name) =>
                 \A k \in 1..Len(top) : histogram[h].count <= top[k].count

\* C27: the points (100.50, 13.75, retail), (100.52, 13.76, retail) and
\* (101.60, 14.90, food) at zoom 8 give exactly two clusters, the cell 402:55
\* with count 2 and retail: 2 first and a cluster with count 1 and food: 1
\* second; with bbox=100,13,101,14 only the first one is returned.
C27_Example ==
  (clustered /\ probe.collection = <<G1, G2, G3>> /\ probe.res.zoom = Int2Num(8)
     /\ probe.query.limit = QUndefined) =>
    LET out == probe.res.features
        first == /\ out[1].cluster_key = "402:55"
                 /\ out[1].count = 2
                 /\ out[1].top_categories = <<[name |-> "retail", count |-> 2]>>
                 /\ out[1].cellSizeDeg = 25
    IN /\ probe.query.bbox = QUndefined =>
            /\ Len(out) = 2
            /\ first
            /\ out[2].count = 1
            /\ out[2].top_categories = <<[name |-> "food", count |-> 1]>>
            /\ out[2].cluster_key = "406:59"
       /\ probe.query.bbox = QStr(<<"100", "13", "101", "14">>) =>
            /\ Len(out) = 1
            /\ first

\* the example restricted to the box 100,13,101,14
C27_Witness ==
  /\ clustered
  /\ probe.collection = <<G1, G2, G3>>
  /\ probe.res.zoom = Int2Num(8)
  /\ probe.query.bbox = QStr(<<"100", "13", "101", "14">>)
  /\ probe.query.limit = QUndefined
  /\ probe.res.originalCount = 2
  /\ Len(probe.res.features) = 1
  /\ probe.res.features[1].count = 2

\* ----------------------------------------- properties of the dataset loader
\* the candidate exists and loadDatasetFromFile does not throw on it
loads(files, path) ==
  files[path].st # "ENOENT" /\ loadDatasetFromFile(path, files[path]).thrown = "none"

\* the candidates in their priority: line-delimited, single-document and
\* point-summary file
Priority ==
  <<"thailand-cities.geojsonl", "thailand-cities.geojson", "thailand-cities-point.geojson">>

\* the places in Priority of the candidates that load
loadable(files) == {i \in 1..Len(Priority) : loads(files, Priority[i])}

\* C28: getPoiDataset returns the dataset of the first candidate, in the order
\* line-delimited, single-document, point-summary file, that exists and
\* loads, skipping the missing and the failing ones; once a call has loaded a
\* dataset every later call returns that dataset and fingerprint and does not
\* touch storage.
C28_FirstLoadableCandidate ==
  probe.op = "dataset" =>
    LET out == probe.res
        files == probe.filesAtCall
        best == CHOOSE i \in loadable(files) : \A j \in loadable(files) : i <= j
    IN /\ (probe.cachedAtCall = NoDataset /\ loadable(files) # {}) =>
             /\ out.value = loadDatasetFromFile(Priority[best], files[Priority[best]]).value
             /\ out.value.info.relativePath = Priority[best]
             /\ out.value.info.lastModified = files[Priority[best]].mtime
       /\ probe.cachedAtCall # NoDataset =>
             /\ out.value = probe.cachedAtCall
             /\ out.accesses = 0
       /\ probe.first # NoDataset =>
             /\ out.value = probe.first
             /\ probe.cachedDataset = probe.first

\* two candidates that fail, the third one loaded, and a later call after the
\* first candidate has become loadable
C28_Witness ==
  /\ probe.op = "dataset"
  /\ probe.calls = 2 /\ probe.touched
  /\ probe.files[Priority[1]] = Lines(<<Junk, Junk>>, 7)
  /\ probe.files[Priority[2]] = Indented(JObj([type |-> JStr("Topology")]), 11)
  /\ probe.first # NoDataset
  /\ probe.first.info.relativePath = Priority[3]
  /\ probe.first.info.featureCount = 1
  /\ probe.res.value = probe.first
  /\ probe.res.accesses = 0

wellFormedPoint(value) ==
  /\ value.k = "object"
  /\ strictEq(prop(value, "type"), JStr("Feature"))
  /\ strictEq(prop(prop(value, "geometry"), "type"), JStr("Point"))
  /\ LET coords == prop(prop(value, "geometry"), "coordinates") IN
       /\ isArray(coords) /\ Len(coords.v) >= 2
       /\ coords.v[1].k = "number" /\ coords.v[2].k = "number"

\* the records of the file a dataset was loaded from
recordsOf(file, type) ==
  IF type = "geojsonl"
  THEN LET jsonLines == SelectSeq(file.lines, LAMBDA l : l.line = "json")
       IN [i \in 1..Len(jsonLines) |-> jsonLines[i].doc]
  ELSE IF isArray(file.whole.doc) THEN file.whole.doc.v
  ELSE prop(file.whole.doc, "features").v

\* C30: the features of a loaded dataset are the well-formed point features
\* among the records of the file, in their order: two finite coordinates each,
\* every other record dropped without error, and featureCount is their number.
C30_OnlyWellFormedPoints ==
  (probe.op = "dataset" /\ probe.cachedAtCall = NoDataset
     /\ probe.res.thrown = "none" /\ probe.res.value # NoDataset) =>
    LET dataset == probe.res.value
        features == dataset.collection.features
        file == probe.filesAtCall[dataset.info.relativePath]
        kept == SelectSeq(recordsOf(file, dataset.info.type), wellFormedPoint)
    IN /\ dataset.info.featureCount = Len(features)
       /\ Len(features) = Len(kept)
       /\ \A i \in 1..Len(kept) :
            LET coords == prop(prop(kept[i], "geometry"), "coordinates").v IN
            /\ features[i].lon = coords[1].v
            /\ features[i].lat = coords[2].v
            /\ features[i].properties = sanitizeProperties(prop(kept[i], "properties"))

\* ------------------------------------------- properties of the cache paths
\* C31: the cache path is a function of (kind, z, x, y) that takes no value
\* twice: two calls give the same path exactly when they name the same kind
\* and the same tile, so a city tile and a POI tile of one address have
\* different paths.
C31_PathCollisionFree ==
  probe.op = "getTileCachePath" =>
    /\ probe.path = getTileCachePath(probe.kind, probe.tile)
    /\ (probe.path = probe.otherPath) <=>
         (probe.kind = probe.otherKind /\ probe.tile = probe.otherTile)

\* a city tile and a POI tile of the same address, and two addresses whose
\* digits read the same when run together
C31_Witness ==
  /\ probe.op = "getTileCachePath"
  /\ \/ probe.kind = "city" /\ probe.otherKind = "poi" /\ probe.tile = probe.otherTile
     \/ probe.kind = probe.otherKind /\ probe.tile = <<4, 1, 11>>
        /\ probe.otherTile = <<4, 11, 1>>
  /\ probe.path # probe.otherPath

\* ---------------------------------- properties of the cancellation tracking
\* what the request holds for the tracking: the stored state, the variable of
\* the listeners, the listeners and the destruction flags
trackingOf(q) ==
  <<q.state, q.created, q.cancelled, q.listeners, q.attached, q.reqDestroyed,
    q.socketDestroyed>>

\* C32: on one request, whatever the number of calls, one state object is
\* built and each listener is attached once; every call returns that same
\* state; a call on a tracked request changes nothing of the request; and
\* once isCancelled() has returned true it is true in every later state.
C32_TrackedOnce ==
  [][probe'.op = "tracking" =>
       /\ probe'.created <= 1
       /\ \A e \in Events : probe'.attached[e] <= 1
       /\ probe'.returned \in {NoState, 1}
       /\ probe'.everTrue => isCancelled(probe')
       /\ (probe.op = "tracking" /\ probe.state # NoState
             /\ probe'.calls = probe.calls + 1)
            => trackingOf(probe') = trackingOf(probe)]_vars

\* three calls on one request, the last two after the close event set the
\* flag: both answered true from the state the first call stored
C32_Witness ==
  /\ probe.op = "tracking"
  /\ probe.calls = MaxTrackingCalls
  /\ probe.created = 1 /\ probe.returned = 1
  /\ probe.cancelled /\ ~probe.reqDestroyed /\ ~probe.socketDestroyed
  /\ probe.listeners["close"] = 0 /\ probe.listeners["aborted"] = 1
  /\ probe.last = "true"

\* ------------------------------------------ properties of the tile pipeline
\* the jobs of the running process whose readFile or writeFile on path p has
\* not completed
accessing(p) ==
  {j \in 1..Len(jobs) :
     /\ jobs[j].epoch = epoch
     /\ jobs[j].stage \in {"reading", "writing"}
     /\ getTileCachePath(jobs[j].kind, jobs[j].key) = p}

\* C33: in every reachable state at most one job of the process has a read
\* or a write of a given cache path in progress, so no two writes of a path
\* and no read and write of a path overlap.
C33_OneAccessPerPath ==
  \A p \in CachePaths : Cardinality(accessing(p)) <= 1

\* two requests for one tile wait while the one job writes the tile's path
C33_Witness ==
  \E j \in 1..Len(jobs) :
     /\ jobs[j].epoch = epoch /\ jobs[j].stage = "writing"
     /\ Cardinality({r \in Reqs : reqs[r].pc = "waiting" /\ reqs[r].job = j}) = 2

\* request r is answered by the handler before it returns
shortCircuits(r) == reqs[r].pc = "idle" /\ reqs'[r].pc = "done"

\* request r arrives with an address that fails validation, with a header
\* that matches, flagged cancelled or with a response no longer writable
arrivesRefused(r) ==
  /\ reqs[r].pc = "idle" /\ reqs'[r].pc # "idle"
  /\ \/ validateTile(Number(reqs'[r].params[1]), Number(reqs'[r].params[2]),
                     Number(reqs'[r].params[3])) # "ok"
     \/ reqs'[r].cancelled
     \/ ~reqs'[r].writable

\* C34: a request answered before the job stage, with 400, 304, 204 or
\* nothing, leaves the registries, the jobs (and with them the counts of
\* cache reads, filter runs and cache writes) and the cache files as they
\* were and holds no job; a request with an invalid address, flagged
\* cancelled or with an unwritable response is answered that way.
C34_ShortCircuitLeavesNoTrace ==
  [][\A r \in Reqs :
       /\ shortCircuits(r) =>
             /\ reqs'[r].outcome \in {"400", "304", "204", "dropped"}
             /\ reqs'[r].job = NoJob /\ ~reqs'[r].invoked
             /\ UNCHANGED <<tileJobs, jobs, disk>>
       /\ arrivesRefused(r) => shortCircuits(r)]_vars

\* a request flagged cancelled for the tile whose job is writing the cache
\* got its 204 without joining the job
C34_Witness ==
  \E r1, r2 \in Reqs :
    /\ reqs[r1].pc = "waiting" /\ jobs[reqs[r1].job].stage = "writing"
    /\ jobs[reqs[r1].job].writes = 0
    /\ reqs[r2].pc = "done" /\ reqs[r2].outcome = "204"
    /\ reqs[r2].tile = reqs[r1].tile
    /\ reqs[r2].job = NoJob

\* the parameters of the request are integers that address a tile; written
\* out for the addresses the requests of the model carry
addressesTile(params) ==
  /\ params[1] = "1"
  /\ params[2] \in {"0", "1"}
  /\ params[3] \in {"0", "1"}

\* C35: the handler checks the address, then the conditional GET, then the
\* cancellation, then runs the job and checks the cancellation again: a
\* request with an invalid address gets 400 whatever its If-None-Match; a
\* request with a valid address and a writable response whose header matches
\* gets 304 also when it is flagged cancelled; one that does not match and is
\* flagged cancelled gets 204 and no job; one cancelled while its job ran gets
\* no payload though the job succeeded.
C35_FixedOrder ==
  \A r \in Reqs : handled(r) =>
    /\ ~addressesTile(reqs[r].params) => reqs[r].outcome = "400" /\ ~ran(r)
    /\ (addressesTile(reqs[r].params) /\ reqs[r].writable /\ ~ran(r)) =>
          /\ inmMatches(r) => reqs[r].outcome = "304"
          /\ ~inmMatches(r) => reqs[r].outcome = "204" /\ reqs[r].cancelled
    /\ (ran(r) /\ reqs[r].pc = "done" /\ reqs[r].cancelled
          /\ jobs[reqs[r].job].outcome = "resolved") =>
          /\ reqs[r].outcome \in {"204", "dropped"}
          /\ reqs[r].body = NoPayload

\* a request for an invalid address with If-None-Match: * got the 400, and a
\* request flagged cancelled whose header carries the tag got the 304
C35_Witness ==
  \E r1, r2 \in Reqs :
    /\ reqs[r1].pc = "done" /\ reqs[r1].params = <<"1", "2", "0">>
    /\ reqs[r1].inm = "star" /\ reqs[r1].outcome = "400"
    /\ reqs[r2].pc = "done" /\ reqs[r2].params = <<"1", "0", "0">>
    /\ reqs[r2].inm = "same" /\ reqs[r2].cancelled /\ reqs[r2].writable
    /\ reqs[r2].outcome = "304"

\* ------------------------------------------ properties of the cities endpoint
\* the features of a sequence, as a set
featureSet(seq) == {seq[i] : i \in 1..Len(seq)}

\* the kind a query value stands for: the first string, whatever its case
statedKind(value) ==
  IF value \in {QStr("all"), QStr("ALL"), QStr("mixed"), QArr(<<"all", "city">>)}
  THEN "all"
  ELSE IF value \in {QStr("cluster"), QStr("clusters"), QStr("cluster_seed"),
                     QStr("seed"), QStr("Seed"), QArr(<<"Cluster">>)}
  THEN "cluster"
  ELSE "city"

\* C36: the kind parameter selects city (the default, also for a value that
\* is not recognised), cluster or all; for one dataset and bbox the features
\* for city and for cluster have none in common and together are the
\* features for all, which are the features inside the bbox, so that
\* count(city) + count(cluster) = total_in_bbox and count <= total_in_bbox.
C36_KindsPartition ==
  (probe.op = "getCitySummary" /\ probe.res.status = 200) =>
    /\ probe.res.kind = statedKind(probe.query.kind)
    /\ probe.res = probe[probe.res.kind]
    /\ probe.all.features = filterByBbox(probe.collection, parseBbox(probe.query.bbox))
    /\ featureSet(probe.city.features) \cap featureSet(probe.cluster.features) = {}
    /\ featureSet(probe.city.features) \cup featureSet(probe.cluster.features)
         = featureSet(probe.all.features)
    /\ probe.city.count + probe.cluster.count = probe.all.total_in_bbox
    /\ \A k \in {"res", "city", "cluster", "all"} :
          /\ probe[k].count = Len(probe[k].features)
          /\ probe[k].total_in_bbox = Len(probe.all.features)
          /\ probe[k].count <= probe[k].total_in_bbox

\* kind=Seed over a bbox that holds two cities, a feature without a kind and
\* two cluster features of different kinds: 2 of 5
C36_Witness ==
  /\ probe.op = "getCitySummary"
  /\ probe.query.kind = QStr("Seed")
  /\ probe.collection = <<S1, S2, S3, S4, S5, S6>>
  /\ probe.res.status = 200
  /\ probe.res.features = <<S2, S5>>
  /\ probe.city.features = <<S1, S3, S4>>
  /\ probe.res.total_in_bbox = 5

\* what a handler can have done with a request
Outcomes == {"400", "304", "204", "200", "error", "dropped"}

\* C37: a tile request ends with one outcome of 400, 304, 204, 200 with the
\* payload, the error forwarded, or nothing written; once it has its outcome
\* nothing of the request changes again, whatever settles, aborts or closes
\* afterwards; a 304, 204 or 200 is written only to a writable response, and
\* nothing is written exactly when the response is no longer writable.
C37_OneOutcome ==
  [][\A r \in Reqs :
       /\ reqs'[r].outcome \in Outcomes \cup {"none"}
       /\ (reqs'[r].pc = "done") <=> (reqs'[r].outcome \in Outcomes)
       /\ (reqs'[r].body # NoPayload) <=> (reqs'[r].outcome = "200")
       /\ reqs'[r].outcome \in {"304", "204", "200"} => reqs'[r].writable
       /\ reqs'[r].outcome = "dropped" => ~reqs'[r].writable
       /\ reqs[r].outcome \in Outcomes => reqs'[r] = reqs[r]]_vars

\* two requests of one successful job: one got the payload, the other, whose
\* socket was destroyed meanwhile, got nothing
C37_Witness ==
  \E r1, r2 \in Reqs :
    /\ reqs[r1].job = reqs[r2].job /\ ran(r1)
    /\ reqs[r1].outcome = "200" /\ reqs[r1].body = jobs[reqs[r1].job].payload
    /\ reqs[r2].outcome = "dropped" /\ reqs[r2].cancelled /\ ~reqs[r2].writable
    /\ reqs[r2].body = NoPayload

\* what a read of the tile of job j under the current fingerprint returns now
heldFor(j) ==
  readTileFromCache(jobs[j].kind, disk[getTileCachePath(jobs[j].kind, jobs[j].key)],
                    datasetInfo[jobs[j].kind])

\* job j returned a payload
succeeded(j) == jobs[j].stage \in {"settled", "done"} /\ jobs[j].outcome = "resolved"

\* C38: whatever the path of a tile held before, once a job for the tile has
\* succeeded under the fingerprint of the process the path holds a valid
\* record for that fingerprint, the one the job returned; a job that computed
\* the payload wrote it once and one that found it wrote nothing; every later
\* job for the tile finds that record: it returns it with hit = true and the
\* generatedAt of the computation, filters nothing and writes nothing.
C38_SelfHealingCache ==
  \A j \in JobIds : succeeded(j) =>
    /\ heldFor(j) = Returned([jobs[j].payload EXCEPT !.cache.hit = TRUE])
    /\ jobs[j].payload.dataset.relativePath = datasetInfo[jobs[j].kind].relativePath
    /\ jobs[j].payload.dataset.lastModified = datasetInfo[jobs[j].kind].lastModified
    /\ IF jobs[j].payload.cache.hit
       THEN jobs[j].filters = 0 /\ jobs[j].writes = 0
       ELSE jobs[j].filters = 1 /\ jobs[j].writes = 1
    /\ \A l \in JobIds :
          (/\ j < l /\ jobs[l].kind = jobs[j].kind /\ jobs[l].key = jobs[j].key
           /\ jobs[l].reads = 1)
          => /\ succeeded(l)
             /\ jobs[l].filters = 0 /\ jobs[l].writes = 0
             /\ jobs[l].payload.cache.hit
             /\ jobs[l].payload.cache.generatedAt = jobs[j].payload.cache.generatedAt
             /\ jobs[l].payload.features = jobs[j].payload.features

\* a process started over a changed dataset found the record of the former
\* fingerprint, computed the tile again and replaced the record
C38_Witness ==
  \E j \in JobIds :
    /\ epoch = 1
    /\ succeeded(j) /\ jobs[j].stage = "done"
    /\ jobs[j].found = "json"
    /\ jobs[j].filters = 1 /\ jobs[j].writes = 1
    /\ jobs[j].payload.cache.generatedAt = 12
    /\ heldFor(j).value.cache.generatedAt = 12

\* job j has settled and its key no longer leads to it
settledAndRemoved(j) == j \in JobIds /\ jobs[j].stage = "done" /\ ~registered(j)

\* no request waits for a job
nonePending == \A r \in Reqs : reqs[r].pc # "waiting"

\* C39: when every cache read and cache write that was started completes,
\* every job that was started settles and leaves its registry, every request
\* that went to the job stage reaches its one outcome, and whenever no
\* request is pending the registries are empty.
C39_EverythingSettles ==
  /\ \A j \in 1..MaxReqs : (j \in JobIds) ~> settledAndRemoved(j)
  /\ \A r \in Reqs :
        (reqs[r].pc = "waiting") ~> (reqs[r].pc = "done" /\ reqs[r].outcome \in Outcomes)
  /\ [](nonePending => \A kind \in KindSet : tileJobs[kind] = EmptyMap)

\* both requests were answered, one with the error of its job and one with
\* the payload of the job that ran after it, and the registries are empty
C39_Witness ==
  /\ Len(jobs) = 2
  /\ \A j \in JobIds : settledAndRemoved(j)
  /\ jobs[1].outcome = "rejected" /\ jobs[2].outcome = "resolved"
  /\ jobs[1].key = jobs[2].key /\ jobs[1].kind = jobs[2].kind
  /\ \A r \in Reqs : reqs[r].pc = "done" /\ ran(r)
  /\ \A kind \in KindSet : tileJobs[kind] = EmptyMap

\* ------------------------------------- properties of the loaded collections
\* C40: within one process no step (a request to a query endpoint with or
\* without a bbox, its filter, its clustering pass, a tile job, a cache read
\* or write) changes a loaded collection (no feature added, removed,
\* reordered or modified), and the dataset fingerprint stays what it was
\* when the module was loaded.
C40_CollectionsReadOnly ==
  [][epoch' = epoch => /\ collection' = collection
                       /\ datasetInfo' = datasetInfo
                       /\ \A k \in KindSet :
                            collection'[k] = loadGeoCollection(storage'[k])]_vars

\* an endpoint answered from the features array of the collection itself (no
\* bbox) with fewer features than the collection has, in the second process
C40_Witness ==
  /\ epoch = 1
  /\ probe.op = "getPois"
  /\ probe.held = "collection"
  /\ probe.res.status = 200
  /\ probe.res.returned < Len(collection["poi"])
  /\ Len(collection["poi"]) = 3

====
